---- MODULE Spec2Model ----
(***************************************************************************)
(* Model of the Jira sync and snapshot store of jira-datadog-dashboard:    *)
(*   - jira_integration.py: JiraClient (get_project, get_all_issues),      *)
(*     FileSystemStorage (save_issues, load_issues, load_project,          *)
(*     get_stats), Database (save_issues, get_stats) and main(), one sync  *)
(*     cycle;                                                              *)
(*   - flask_app.py / dashboard_server.py: the readers of the snapshot     *)
(*     files;                                                              *)
(*   - dashboard_server.py: auto_refresh_jira / run_jira_fetch, the        *)
(*     refresh scheduler.                                                  *)
(* Strings the code transforms (status names, lower-cased by get_stats)    *)
(* are sequences of one-character strings.                                 *)
(***************************************************************************)
EXTENDS Integers, Sequences, FiniteSets, TLC

\* ------------------------------------------------------------------ bounds

\* Page size of the search request (config.JIRA_MAX_RESULTS is 100; the loop
\* of get_all_issues is parametric in it, the model runs it scaled down).
JIRA_MAX_RESULTS == 2

\* Most issues the remote project holds in a sync cycle of Spec.
MaxRemote == 3

\* Most issues the remote project holds in SpecFetch.
MaxRemoteFetch == 8

\* Largest identifier of an issue created on the remote during a run of
\* get_all_issues in SpecChurn.
MaxIssueId == 4

\* Sync cycles (runs of main) of one behaviour.
MaxCycles == 2

\* Longest list of statuses handed to get_stats in SpecStats.
MaxStatLen == 5

\* Longest time, in seconds, a sync subprocess is followed while it runs.
MaxRunSeconds == 302

\* Refresh cycles of one behaviour of the scheduler.
MaxRefresh == 2

\* Longest date string, in pieces, handed to _parse_date in SpecDates.
MaxDateLen == 4

\* ------------------------------------------------------------------ state

VARIABLES
    pc,            \* where the sync cycle (jira_integration.main) stands
    cycles,        \* sync cycles started so far
    outcome,       \* how the last cycle ended, and at which step
    remote,        \* the issues the remote holds during the cycle
    project,       \* main's project
    issues,        \* get_all_issues' issues; main's issues once it returned
    start_at,      \* get_all_issues' start_at
    requests,      \* the startAt of every search request sent, in order
    fetchFailed,   \* a search request of this get_all_issues raised
    fetchedProject,\* what jira.get_project() returned to main, and its requests
    sent,          \* an HTTP request of this cycle went out to the remote
    projectsFile,  \* Config.PROJECTS_FILE
    issuesFile,    \* Config.ISSUES_FILE
    backups,       \* the documents under Config.BACKUP_DIR
    newProject,    \* save_issues' project_with_timestamp
    newIssues,     \* save_issues' issues_with_metadata
    committed,     \* the snapshot of the last save_issues that returned True
    atStart,       \* the two files as the cycle found them
    stats,         \* the statistics main or --stats reported in this run
    lastRead,      \* the read a dashboard or storage reader has just made
    schedPc,       \* where auto_refresh_jira stands
    ticks,         \* one-second sleeps done in the current wait
    stop_refresh,  \* dashboard_server.stop_refresh
    children,      \* sync subprocesses started by run_jira_fetch and running
    runSeconds,    \* seconds the running subprocess has taken so far
    refreshes,     \* run_jira_fetch calls so far
    stopSeconds,   \* seconds passed since stop_refresh was set, thread alive
    fetchResult,   \* how the last run_jira_fetch ended: what it printed
    config,        \* Config: the Jira settings and USE_DATABASE
    db,            \* the MySQL database and the sink's connection to it
    date_str,      \* _parse_date's argument
    parsed,        \* what _parse_date returned for it
    run,           \* a run of jira_integration.py: environment and sys.argv
    mgr,           \* main's StorageManager and the calls it has served
    switcher,      \* project_switcher.py: the alias it was given and what it returned
    web            \* flask_app: USERS, users.json, a browser's session, the last exchange

\* --------------------------------------------------------------- constants

\* for _ in range(300): one-second sleeps between two refresh cycles.
RefreshSeconds == 300

\* Config.JIRA_PROJECT_ID: set by config.py, assigned by project_switcher.
JIRA_PROJECT_ID == config.JIRA_PROJECT_ID

\* Config.JIRA_PROJECT_KEY: nothing assigns it after the class is built.
JIRA_PROJECT_KEY == "DP"

\* ------------------------------------------------------------ status names

S_Open == <<"O","p","e","n">>

S_InProgress == <<"I","n"," ","P","r","o","g","r","e","s","s">>

S_Reopened == <<"R","e","o","p","e","n","e","d">>

S_ToDo == <<"T","o"," ","D","o">>

S_Done == <<"D","o","n","e">>

S_done == <<"d","o","n","e">>

S_Closed == <<"C","l","o","s","e","d">>

S_Resolved == <<"R","e","s","o","l","v","e","d">>

S_Cancelled == <<"C","a","n","c","e","l","l","e","d">>

S_Unknown == <<"U","N","K","N","O","W","N","_","S","T","A","T","U","S">>

\* str.lower(), character by character.
UpperToLower ==
    [A |-> "a", B |-> "b", C |-> "c", D |-> "d", E |-> "e", F |-> "f",
     G |-> "g", H |-> "h", I |-> "i", J |-> "j", K |-> "k", L |-> "l",
     M |-> "m", N |-> "n", O |-> "o", P |-> "p", Q |-> "q", R |-> "r",
     S |-> "s", T |-> "t", U |-> "u", V |-> "v", W |-> "w", X |-> "x",
     Y |-> "y", Z |-> "z"]

\* str.lower() left out: the comparison of get_stats made case-sensitive.
LowerChar_Identity(c) == c

LowerChar(c) == IF c \in DOMAIN UpperToLower THEN UpperToLower[c] ELSE c

Lower(s) == [i \in DOMAIN s |-> LowerChar(s[i])]

\* The literal lists of FileSystemStorage.get_stats.
StatsActive == {Lower(S_InProgress), Lower(S_Open), Lower(S_Reopened)}

StatsClosed == {Lower(S_Closed), Lower(S_Resolved), Lower(S_Done)}

StatsTodo == {Lower(S_ToDo)}

\* config.py: "Status mappings for statistics".
ACTIVE_STATUSES == {S_InProgress, S_Open, S_Reopened, S_ToDo}

CLOSED_STATUSES == {S_Closed, S_Resolved, S_Done, S_Cancelled}


\* ------------------------------------------------------------- the remote

\* Status names of the remote's issues, by issue number.
RemoteStatuses == <<S_Open, S_Done, S_done, S_Unknown, S_ToDo, S_InProgress>>

\* A nested field the remote left out or sent as null (falsy in Python).
NoField == <<>>

\* {'name': n}, the shape of status, priority and issuetype.
Named(n) == <<[name |-> n]>>

\* {'displayName': n}, the shape of assignee and reporter.
User(n) == <<[displayName |-> n]>>

\* The nested fields of a raw record that get_all_issues reads by name.
NestedFields == {"status", "priority", "issuetype", "assignee", "reporter"}

\* The key of issue number i, "DP-<i>".
IssueKey(i) == <<JIRA_PROJECT_KEY, i>>

\* One element of data['issues'] as the remote sends it, every field present.
RawIssue(i) ==
    [id |-> i, key |-> IssueKey(i),
     fields |-> [status |-> Named(RemoteStatuses[((i - 1) % Len(RemoteStatuses)) + 1]),
                 priority |-> Named("Medium"),
                 issuetype |-> Named("Task"),
                 assignee |-> User("Alice"),
                 reporter |-> User("Bob")]]

\* The record with the nested fields of the set missing left out.
WithoutFields(raw, missing) ==
    [raw EXCEPT !.fields = [f \in DOMAIN raw.fields |->
                               IF f \in missing THEN NoField ELSE raw.fields[f]]]

\* The absent status rendered as str(None) instead of ''.
process_NoneStatus(issue) ==
    [id |-> issue.id,
     key |-> issue.key,
     status |-> IF issue.fields.status # NoField
                   THEN issue.fields.status[1].name ELSE <<"N","o","n","e">>,
     priority |-> IF issue.fields.priority # NoField
                     THEN issue.fields.priority[1].name ELSE "",
     issuetype |-> IF issue.fields.issuetype # NoField
                      THEN issue.fields.issuetype[1].name ELSE "",
     assignee |-> IF issue.fields.assignee # NoField
                     THEN issue.fields.assignee[1].displayName ELSE "",
     reporter |-> IF issue.fields.reporter # NoField
                     THEN issue.fields.reporter[1].displayName ELSE "",
     created_by |-> IF issue.fields.reporter # NoField
                       THEN issue.fields.reporter[1].displayName ELSE "",
     assigned_to |-> IF issue.fields.assignee # NoField
                        THEN issue.fields.assignee[1].displayName ELSE "Unassigned"]

\* get_all_issues: processed = {...}, the record kept for one raw issue (the
\* empty status name is the empty sequence of characters).
process(issue) ==
    [id |-> issue.id,
     key |-> issue.key,
     status |-> IF issue.fields.status # NoField
                   THEN issue.fields.status[1].name ELSE <<>>,
     priority |-> IF issue.fields.priority # NoField
                     THEN issue.fields.priority[1].name ELSE "",
     issuetype |-> IF issue.fields.issuetype # NoField
                      THEN issue.fields.issuetype[1].name ELSE "",
     assignee |-> IF issue.fields.assignee # NoField
                     THEN issue.fields.assignee[1].displayName ELSE "",
     reporter |-> IF issue.fields.reporter # NoField
                     THEN issue.fields.reporter[1].displayName ELSE "",
     created_by |-> IF issue.fields.reporter # NoField
                       THEN issue.fields.reporter[1].displayName ELSE "",
     assigned_to |-> IF issue.fields.assignee # NoField
                        THEN issue.fields.assignee[1].displayName ELSE "Unassigned"]

\* batch_issues: the processed records of one page, in the page's order.
batch_issues(page) == [k \in DOMAIN page |-> process(page[k])]

\* Issue number i as get_all_issues keeps it.
ProcessedIssue(i) == process(RawIssue(i))

\* The issues of the project on the remote, n of them, in the search order.
RemoteIssues(n) == [i \in 1..n |-> RawIssue(i)]

\* The projects of the Jira site, the two project_switcher.PROJECTS lists.
DonationProject ==
    [id |-> "10000", key |-> "DP", name |-> "Donation Platform (Jira)",
     projectTypeKey |-> "business"]

SupportProject ==
    [id |-> "10001", key |-> "SUP", name |-> "Support (Jira)",
     projectTypeKey |-> "service_desk"]

SiteProjects == {DonationProject, SupportProject}

\* GET /rest/api/3/project/{id or key}: the project as the remote answers it.
ProjectBy(field, value) == CHOOSE p \in SiteProjects : p[field] = value

\* The answer to the request by Config.JIRA_PROJECT_ID.
RemoteProject == ProjectBy("id", JIRA_PROJECT_ID)

\* The answer to the request by Config.JIRA_PROJECT_KEY.
RemoteProjectByKey == ProjectBy("key", JIRA_PROJECT_KEY)

\* main's fallback project.
FallbackProject ==
    [id |-> JIRA_PROJECT_ID, key |-> JIRA_PROJECT_KEY, name |-> "Donation Platform",
     projectTypeKey |-> "software"]

Min(a, b) == IF a < b THEN a ELSE b

\* GET /rest/api/3/search with startAt and maxResults: data['issues'].
SearchPage(rem, startAt, maxResults) ==
    SubSeq(rem, startAt + 1, Min(startAt + maxResults, Len(rem)))

\* ------------------------------------------------------------------ files

NoProjectDoc ==
    [id |-> "", key |-> "", name |-> "", projectTypeKey |-> "",
     last_updated |-> 0, issues_count |-> 0]

NoIssuesDoc ==
    [project_id |-> "", project_key |-> "", last_updated |-> 0,
     total_issues |-> 0, issues |-> <<>>]

\* A file is absent, or holds the whole text of a document ("complete"), a
\* strict prefix of it ("partial") or nothing ("empty", as open(..., 'w')
\* leaves it).
Absent(nodoc) == [state |-> "absent", doc |-> nodoc]

\* open(path, 'w'): the file is created or truncated.
OpenW(nodoc) == [state |-> "empty", doc |-> nodoc]

\* Part of json.dump's output has reached the file.
Partial(d) == [state |-> "partial", doc |-> d]

\* json.dump has written the whole document and the file is closed.
Complete(d) == [state |-> "complete", doc |-> d]

\* project_with_timestamp of save_issues.
ProjectWithTimestamp(project_data, issues_data, now) ==
    [id |-> project_data.id, key |-> project_data.key, name |-> project_data.name,
     projectTypeKey |-> project_data.projectTypeKey,
     last_updated |-> now, issues_count |-> Len(issues_data)]

\* issues_with_metadata of save_issues.
IssuesWithMetadata(project_data, issues_data, now) ==
    [project_id |-> project_data.id, project_key |-> project_data.key,
     last_updated |-> now, total_issues |-> Len(issues_data), issues |-> issues_data]

\* ---------------------------------------------------------------- readers

\* What a read returns: code is "data" or "None" for the storage's loaders,
\* "200", "404" or "500" for the HTTP handlers; body is what was delivered.
Result(code, body) == [code |-> code, body |-> body]

\* FileSystemStorage.load_issues / load_project: None when the file does not
\* exist and when json.load raises (the except branch), the document otherwise.
load_file(f, nodoc) ==
    IF f.state = "complete" THEN Result("data", f) ELSE Result("None", Absent(nodoc))

load_issues(f) == load_file(f, NoIssuesDoc)

load_project(f) == load_file(f, NoProjectDoc)

\* flask_app.api_issues / api_project: 404 when the file does not exist, 500
\* when json.load raises, the document otherwise.
api_file(f, nodoc) ==
    IF f.state = "absent" THEN Result("404", Absent(nodoc))
    ELSE IF f.state = "complete" THEN Result("200", f)
    ELSE Result("500", Absent(nodoc))

api_issues(f) == api_file(f, NoIssuesDoc)

api_project(f) == api_file(f, NoProjectDoc)

\* DashboardHandler.do_GET for a path ending in .json: the text of the file as
\* it is, unparsed, or 404 on FileNotFoundError.
do_GET_json(f) ==
    IF f.state = "absent" THEN Result("404", f) ELSE Result("200", f)

\* FileSystemStorage.get_stats.
NoStats ==
    [has |-> FALSE, total_issues |-> 0, active_issues |-> 0, closed_issues |-> 0,
     todo_issues |-> 0, last_updated |-> 0]

CountIn(iss, names) ==
    Cardinality({i \in DOMAIN iss : Lower(iss[i].status) \in names})

get_stats(f) ==
    LET data == load_issues(f) IN
    IF data.code = "None" THEN NoStats
    ELSE [has |-> TRUE,
          total_issues |-> Len(data.body.doc.issues),
          active_issues |-> CountIn(data.body.doc.issues, StatsActive),
          closed_issues |-> CountIn(data.body.doc.issues, StatsClosed),
          todo_issues |-> CountIn(data.body.doc.issues, StatsTodo),
          last_updated |-> data.body.doc.last_updated]

\* ------------------------------------------------------------------ dates

\* The pieces a date string is made of: a calendar date (2024-01-15), the
\* separator T, a time of day (10:30:00), the zone designator Z, the offset
\* +00:00, and text that belongs to no date.
DateTokens == {"date", "T", "time", "Z", "+00:00", "junk"}

\* What get_all_issues hands to _parse_date: None when the field is absent,
\* a string (a sequence of at most MaxDateLen pieces, empty for ''), or a
\* value that is not a string.
DateValues ==
    {[type |-> "NoneType", s |-> <<>>], [type |-> "int", s |-> <<>>]}
       \cup {[type |-> "str", s |-> t] :
                t \in UNION {[1..n -> DateTokens] : n \in 0..MaxDateLen}}

NoDate == [type |-> "NoneType", s |-> <<>>]

NotParsed == [kind |-> "pending", tzinfo |-> ""]

\* None.
PyNone == [kind |-> "None", tzinfo |-> ""]

\* A datetime, naive (tzinfo None) or aware.
Datetime(tzinfo) == [kind |-> "datetime", tzinfo |-> tzinfo]

\* not date_str: None, '' and 0 are falsy.
Falsy(v) == v.type = "NoneType" \/ (v.type = "str" /\ v.s = <<>>)

\* str.replace('Z', '+00:00'): every Z of the string.
ReplaceZ(t) == [i \in DOMAIN t |-> IF t[i] = "Z" THEN "+00:00" ELSE t[i]]

\* datetime.fromisoformat: the forms datetime.isoformat() writes; anything
\* else is a ValueError.
fromisoformat(t) ==
    IF t = <<"date">> \/ t = <<"date", "T", "time">> THEN Datetime("None")
    ELSE IF t = <<"date", "T", "time", "+00:00">> THEN Datetime("UTC")
    ELSE [kind |-> "ValueError", tzinfo |-> ""]

\* _parse_date handing the string to fromisoformat as it is.
_parse_date_NoReplace(v) ==
    IF Falsy(v) THEN PyNone
    ELSE IF v.type # "str" THEN PyNone
    ELSE IF v.s = <<"date">> \/ v.s = <<"date", "T", "time">> THEN Datetime("None")
    ELSE IF v.s = <<"date", "T", "time", "+00:00">> THEN Datetime("UTC")
    ELSE PyNone

\* JiraClient._parse_date: None for a falsy argument; otherwise the result of
\* fromisoformat on the string with Z replaced, and None when the try block
\* raises (a value without replace(), a ValueError).
_parse_date(v) ==
    IF Falsy(v) THEN PyNone
    ELSE IF v.type # "str" THEN PyNone
    ELSE LET r == fromisoformat(ReplaceZ(v.s))
         IN IF r.kind = "ValueError" THEN PyNone ELSE r

\* ------------------------------------------------- the relational sink

\* SUM(...) over no rows: NULL.
SqlNull == -1

\* Comparison of two strings under the default collation of MySQL (the
\* tables are created without one): case-insensitive.
SqlEq(a, b) == Lower(a) = Lower(b)

SqlIn(v, names) == \E n \in names : SqlEq(v, n)

\* The IN lists of Database.get_stats.
DbActive == {S_InProgress, S_Open, S_Reopened}

DbClosed == {S_Closed, S_Resolved, S_Done}

DbTodo == {S_ToDo}

\* The table with the row of primary key id set to row.
UpsertRow(t, id, row) ==
    [k \in DOMAIN t \cup {id} |-> IF k = id THEN row ELSE t[k]]

\* The VALUES of the project statement (the projects of the model all carry
\* projectTypeKey, so .get's default 'unknown' is not taken).
ProjectValues(project_data) ==
    [id |-> project_data.id, name |-> project_data.name,
     key_name |-> project_data.key, project_type |-> project_data.projectTypeKey]

\* INSERT INTO jira_projects ... ON DUPLICATE KEY UPDATE name, key_name,
\* project_type; updated_at moves only when a column changes.
UpsertProject(t, v, now) ==
    IF v.id \in DOMAIN t
       THEN LET old == t[v.id]
                new == [old EXCEPT !.name = v.name, !.key_name = v.key_name,
                                   !.project_type = v.project_type]
            IN UpsertRow(t, v.id,
                         IF new = old THEN old ELSE [new EXCEPT !.updated_at = now])
       ELSE UpsertRow(t, v.id,
                      [id |-> v.id, name |-> v.name, key_name |-> v.key_name,
                       project_type |-> v.project_type,
                       created_at |-> now, updated_at |-> now])

\* The VALUES of the issue statement, of the fields the model keeps.
IssueValues(issue, project_data) ==
    [id |-> issue.id, project_id |-> project_data.id, issue_key |-> issue.key,
     status |-> issue.status, priority |-> issue.priority,
     issue_type |-> issue.issuetype, assignee |-> issue.assignee,
     reporter |-> issue.reporter]

\* INSERT INTO jira_issues ... ON DUPLICATE KEY UPDATE status, priority,
\* issue_type, assignee, reporter (and summary, description, the dates):
\* project_id and issue_key of an existing row stay.
UpsertIssue(t, v, now) ==
    IF v.id \in DOMAIN t
       THEN LET old == t[v.id]
                new == [old EXCEPT !.status = v.status, !.priority = v.priority,
                                   !.issue_type = v.issue_type,
                                   !.assignee = v.assignee, !.reporter = v.reporter]
            IN UpsertRow(t, v.id,
                         IF new = old THEN old ELSE [new EXCEPT !.updated_at = now])
       ELSE UpsertRow(t, v.id,
                      [id |-> v.id, project_id |-> v.project_id,
                       issue_key |-> v.issue_key, status |-> v.status,
                       priority |-> v.priority, issue_type |-> v.issue_type,
                       assignee |-> v.assignee, reporter |-> v.reporter,
                       created_at |-> now, updated_at |-> now])

\* SUM(CASE WHEN status IN (...) THEN 1 ELSE 0 END) FROM jira_issues.
SqlSumIn(t, names) ==
    IF DOMAIN t = {} THEN SqlNull
    ELSE Cardinality({k \in DOMAIN t : SqlIn(t[k].status, names)})

\* Database.get_stats: the one row of the SELECT.
DbGetStats(t) ==
    [has |-> TRUE,
     total_issues |-> Cardinality(DOMAIN t),
     active_issues |-> SqlSumIn(t, DbActive),
     closed_issues |-> SqlSumIn(t, DbClosed),
     todo_issues |-> SqlSumIn(t, DbTodo)]


cycleVars ==
    <<pc, cycles, outcome, remote, project, issues, start_at, requests,
      fetchFailed, fetchedProject, sent, projectsFile, issuesFile, backups,
      newProject, newIssues, committed, atStart, stats>>

schedVars ==
    <<schedPc, ticks, stop_refresh, children, runSeconds, refreshes, stopSeconds,
      fetchResult>>

datesVars == <<date_str, parsed>>

mgrVars == <<run, mgr>>

auxVars == <<datesVars, mgrVars, switcher, web>>

vars == <<cycleVars, lastRead, schedVars, auxVars, config, db>>

NoSnapshot == [has |-> FALSE, project |-> NoProjectDoc, issues |-> NoIssuesDoc]

NoRead == [op |-> "none", code |-> "", body |-> Absent(NoProjectDoc)]

NoOutcome == [kind |-> "none", at |-> "idle", fetched |-> 0]

\* jira.get_project() not called yet: nothing returned, no request made.
NoFetchedProject == [found |-> FALSE, project |-> NoProjectDoc, requests |-> <<>>]

\* config.py with the three Jira settings set; "" is an unset one.
ConfigAsShipped ==
    [JIRA_BASE_URL |-> "url", JIRA_EMAIL |-> "email", JIRA_API_TOKEN |-> "token",
     USE_DATABASE |-> FALSE, JIRA_PROJECT_ID |-> "10000"]

\* CREATE TABLE IF NOT EXISTS jira_projects / jira_issues: a table is a
\* function from the primary key to the row.
NoTable == <<>>

NoArgs == [project |-> NoProjectDoc, issues |-> <<>>]

\* The database before any save: both tables empty, no transaction open.
\* projects / issues are the committed rows, txProjects / txIssues the rows as
\* the sink's connection sees them inside its transaction, k the issue the
\* loop of save_issues stands at; atStart, args, result describe the last
\* call of save_issues, prevArgs and prevOk the call before it, failed says
\* that some call was rolled back, stats is what get_stats returned last.
NoDb ==
    [projects |-> NoTable, issues |-> NoTable,
     txProjects |-> NoTable, txIssues |-> NoTable, k |-> 0,
     atStart |-> [projects |-> NoTable, issues |-> NoTable],
     args |-> NoArgs, result |-> "none",
     prevArgs |-> NoArgs, prevOk |-> FALSE, failed |-> FALSE,
     stats |-> NoStats]

\* datetime.now(), at the resolution of one sync cycle.
Now == cycles

\* No run of jira_integration.py yet.
NoProcess == [runs |-> 0, USE_DATABASE |-> "false", MYSQL_AVAILABLE |-> FALSE, argv |-> ""]

\* No StorageManager constructed.
NoManager == [pc |-> "off", storage |-> "none", is_database |-> FALSE, served |-> <<>>]

StorageInit ==
    /\ run = NoProcess
    /\ mgr = NoManager

\* hashlib.sha256(password.encode()).hexdigest(): a digest, equal for equal
\* passwords only.
hash_password(password) == <<"sha256", password>>

\* flask_app.verify_password.
verify_password(password, password_hash) == hash_password(password) = password_hash

\* flask_app.USERS as the module defines it: one administrator.
USERS == [jiradd |-> [password_hash |-> hash_password("pw-jiradd"), role |-> "admin"]]

\* users.json does not exist.
NoUsersFile == <<>>

\* A session cookie with nothing in it: no key is set.
EmptySession ==
    [keys |-> {}, user_id |-> "", user_role |-> "", authenticated |-> FALSE,
     login_time |-> 0, permanent |-> FALSE]

\* No request made yet.
NoRequest == [method |-> "none", path |-> ""]

NoResponse == [status |-> "none", location |-> "", body |-> ""]

\* The Flask application has started and a browser without a cookie has
\* not asked for anything; loggedIn says that the session has completed a
\* successful login and has not logged out since, loggedOut that it has
\* logged out after a successful login.
WebInit ==
    web = [USERS |-> USERS, users_json |-> NoUsersFile, session |-> EmptySession,
           request |-> NoRequest, response |-> NoResponse,
           loggedIn |-> FALSE, loggedOut |-> FALSE]

\* project_switcher.py not run.
NoSwitch == [alias |-> "", storage_mode |-> "None", returned |-> "none"]

SwitchInit == switcher = NoSwitch

\* _parse_date not called.
DatesInit ==
    /\ date_str = NoDate
    /\ parsed = NotParsed

\* The scheduler before start_dashboard_server has started its thread.
SchedInit ==
    /\ schedPc = "off"
    /\ ticks = 0
    /\ stop_refresh = FALSE
    /\ children = 0
    /\ runSeconds = 0
    /\ refreshes = 0
    /\ stopSeconds = 0
    /\ fetchResult = "none"

\* A data directory no sync has written yet, and no cycle running.
CycleInit ==
    /\ pc = "idle"
    /\ cycles = 0
    /\ outcome = NoOutcome
    /\ remote = <<>>
    /\ project = FallbackProject
    /\ issues = <<>>
    /\ start_at = 0
    /\ requests = <<>>
    /\ fetchFailed = FALSE
    /\ fetchedProject = NoFetchedProject
    /\ sent = FALSE
    /\ projectsFile = Absent(NoProjectDoc)
    /\ issuesFile = Absent(NoIssuesDoc)
    /\ backups = {}
    /\ newProject = NoProjectDoc
    /\ newIssues = NoIssuesDoc
    /\ committed = NoSnapshot
    /\ atStart = [p |-> Absent(NoProjectDoc), i |-> Absent(NoIssuesDoc)]
    /\ stats = NoStats
    /\ lastRead = NoRead

\* config.py as shipped (every credential set); the tables of the database
\* created and empty.
EnvInit ==
    /\ config = ConfigAsShipped
    /\ db = NoDb
    /\ DatesInit
    /\ StorageInit
    /\ SwitchInit
    /\ WebInit

Init == EnvInit /\ CycleInit /\ SchedInit

\* --------------------------------------------------- the sync cycle: main

\* main moving the canonical files into the backup directory before it
\* fetches.
StartCycle_BacksUp ==
    /\ pc = "idle"
    /\ cycles < MaxCycles
    /\ \E n \in 0..MaxRemote : remote' = RemoteIssues(n)
    /\ cycles' = cycles + 1
    /\ pc' = "get_project"
    /\ outcome' = NoOutcome
    /\ newProject' = NoProjectDoc
    /\ newIssues' = NoIssuesDoc
    /\ atStart' = [p |-> projectsFile, i |-> issuesFile]
    /\ backups' = backups
          \cup (IF projectsFile.state # "absent"
                   THEN {[name |-> "projects", timestamp |-> cycles + 1, content |-> projectsFile]}
                   ELSE {})
          \cup (IF issuesFile.state # "absent"
                   THEN {[name |-> "issues", timestamp |-> cycles + 1, content |-> issuesFile]}
                   ELSE {})
    /\ projectsFile' = Absent(NoProjectDoc)
    /\ issuesFile' = Absent(NoIssuesDoc)
    /\ stats' = NoStats
    /\ lastRead' = NoRead
    /\ UNCHANGED <<project, issues, start_at, requests, fetchFailed, fetchedProject,
                   sent, committed, schedVars, auxVars, config, db>>

\* main is entered: JiraClient(), StorageManager() and storage.initialize(),
\* which for the file sink only makes sure the directories exist.
StartCycle ==
    /\ pc = "idle"
    /\ cycles < MaxCycles
    /\ \E n \in 0..MaxRemote : remote' = RemoteIssues(n)
    /\ cycles' = cycles + 1
    /\ pc' = "get_project"
    /\ outcome' = NoOutcome
    /\ newProject' = NoProjectDoc
    /\ newIssues' = NoIssuesDoc
    /\ atStart' = [p |-> projectsFile, i |-> issuesFile]
    /\ stats' = NoStats
    /\ lastRead' = NoRead
    /\ UNCHANGED <<project, issues, start_at, requests, fetchFailed, fetchedProject,
                   sent, projectsFile, issuesFile, backups, committed, schedVars,
                   auxVars, config, db>>

\* main is entered and the storage cannot be initialized: initialize()
\* returns False (connect or init_tables of the relational sink failed) and
\* main returns, or mkdir raises and main's except branch logs it; finally
\* storage.cleanup(). No request was made.
InitializeFails ==
    /\ pc = "idle"
    /\ cycles < MaxCycles
    /\ cycles' = cycles + 1
    /\ \E kind \in {"init_failed", "raised"} :
          outcome' = [kind |-> kind, at |-> "initialize", fetched |-> 0]
    /\ newProject' = NoProjectDoc
    /\ newIssues' = NoIssuesDoc
    /\ atStart' = [p |-> projectsFile, i |-> issuesFile]
    /\ stats' = NoStats
    /\ lastRead' = NoRead
    /\ UNCHANGED <<pc, remote, project, issues, start_at, requests, fetchFailed,
                   fetchedProject, sent, projectsFile, issuesFile, backups, committed,
                   schedVars, auxVars, config, db>>

\* session.get(url): with JIRA_BASE_URL empty the URL has no scheme and
\* requests raises before anything goes out; otherwise the request is sent,
\* with whatever credentials session.auth holds.
CanSend == config.JIRA_BASE_URL # ""

\* One GET /rest/api/3/project/{...} of get_project: by the identifier or by
\* the key, and whether it came back without raising.
ProjectRequest(by, ok) == [by |-> by, ok |-> ok]

\* get_project without its second try: None when the request by id fails.
get_project_IdOnly(byId, byKey) ==
    IF byId
       THEN [found |-> TRUE, project |-> RemoteProject,
             requests |-> <<ProjectRequest("id", TRUE)>>]
       ELSE [found |-> FALSE, project |-> NoProjectDoc,
             requests |-> <<ProjectRequest("id", FALSE)>>]

\* JiraClient.get_project: by id, then in the except branch by key, else
\* None; byId and byKey say whether the remote answers that request. What
\* is returned, and the requests made in order.
get_project(byId, byKey) ==
    IF byId
       THEN [found |-> TRUE, project |-> RemoteProject,
             requests |-> <<ProjectRequest("id", TRUE)>>]
    ELSE IF byKey
       THEN [found |-> TRUE, project |-> RemoteProjectByKey,
             requests |-> <<ProjectRequest("id", FALSE), ProjectRequest("key", TRUE)>>]
    ELSE [found |-> FALSE, project |-> NoProjectDoc,
          requests |-> <<ProjectRequest("id", FALSE), ProjectRequest("key", FALSE)>>]

\* main giving up when get_project returns None instead of falling back.
GetProject_AbortsOnNone ==
    /\ pc = "get_project"
    /\ \E byId \in BOOLEAN, byKey \in BOOLEAN :
          /\ (byId \/ byKey) => CanSend
          /\ LET r == get_project(byId, byKey) IN
                IF r.found
                   THEN /\ fetchedProject' = r
                        /\ project' = r.project
                        /\ sent' = CanSend
                        /\ pc' = "fetch"
                        /\ UNCHANGED <<outcome, remote>>
                   ELSE /\ fetchedProject' = r
                        /\ project' = project
                        /\ sent' = FALSE
                        /\ pc' = "idle"
                        /\ remote' = <<>>
                        /\ outcome' = [kind |-> "project_failed", at |-> pc, fetched |-> 0]
    /\ lastRead' = NoRead
    /\ UNCHANGED <<cycles, issues, start_at, requests, fetchFailed,
                   projectsFile, issuesFile, backups, newProject, newIssues,
                   committed, atStart, stats, schedVars, auxVars, config, db>>

\* main calling save_data right after the project fetch, before
\* get_all_issues.
GetProject_ThenSave ==
    /\ pc = "get_project"
    /\ \E byId \in BOOLEAN, byKey \in BOOLEAN :
          /\ (byId \/ byKey) => CanSend
          /\ LET r == get_project(byId, byKey) IN
                /\ fetchedProject' = r
                /\ project' = IF r.found THEN r.project ELSE FallbackProject
    /\ sent' = CanSend
    /\ pc' = "open_project"
    /\ lastRead' = NoRead
    /\ UNCHANGED <<cycles, outcome, remote, issues, start_at, requests, fetchFailed,
                   projectsFile, issuesFile, backups, newProject, newIssues,
                   committed, atStart, stats, schedVars, auxVars, config, db>>

\* main: project = jira.get_project(), the fallback when it is None; then
\* get_all_issues starts (issues = [], start_at = 0).
GetProject ==
    /\ pc = "get_project"
    /\ \E byId \in BOOLEAN, byKey \in BOOLEAN :
          /\ (byId \/ byKey) => CanSend
          /\ LET r == get_project(byId, byKey) IN
                /\ fetchedProject' = r
                /\ project' = IF r.found THEN r.project ELSE FallbackProject
    /\ sent' = CanSend
    /\ pc' = "fetch"
    /\ lastRead' = NoRead
    /\ UNCHANGED <<cycles, outcome, remote, issues, start_at, requests, fetchFailed,
                   projectsFile, issuesFile, backups, newProject, newIssues,
                   committed, atStart, stats, schedVars, auxVars, config, db>>

\* The loop ended by an empty page instead of a short one.
FetchPageOk_StopOnEmpty ==
    /\ pc = "fetch"
    /\ CanSend
    /\ sent' = TRUE
    /\ LET page == SearchPage(remote, start_at, JIRA_MAX_RESULTS) IN
          /\ requests' = Append(requests, start_at)
          /\ issues' = issues \o batch_issues(page)
          /\ IF Len(page) = 0
                THEN pc' = "fetched" /\ start_at' = start_at
                ELSE pc' = "fetch" /\ start_at' = start_at + JIRA_MAX_RESULTS
    /\ lastRead' = NoRead
    /\ UNCHANGED <<cycles, outcome, remote, project, fetchFailed, fetchedProject,
                   projectsFile, issuesFile, backups, newProject, newIssues,
                   committed, atStart, stats, schedVars, auxVars, config, db>>

\* One turn of get_all_issues' loop whose request succeeds: the page is
\* appended; a short page ends the loop, a full one moves start_at on.
FetchPageOk ==
    /\ pc = "fetch"
    /\ CanSend
    /\ sent' = TRUE
    /\ LET page == SearchPage(remote, start_at, JIRA_MAX_RESULTS) IN
          /\ requests' = Append(requests, start_at)
          /\ issues' = issues \o batch_issues(page)
          /\ IF Len(page) < JIRA_MAX_RESULTS
                THEN pc' = "fetched" /\ start_at' = start_at
                ELSE pc' = "fetch" /\ start_at' = start_at + JIRA_MAX_RESULTS
    /\ lastRead' = NoRead
    /\ UNCHANGED <<cycles, outcome, remote, project, fetchFailed, fetchedProject,
                   projectsFile, issuesFile, backups, newProject, newIssues,
                   committed, atStart, stats, schedVars, auxVars, config, db>>

\* The except branch returning an empty list instead of breaking.
FetchPageFail_DropsIssues ==
    /\ pc = "fetch"
    /\ requests' = Append(requests, start_at)
    /\ fetchFailed' = TRUE
    /\ sent' = (sent \/ CanSend)
    /\ issues' = <<>>
    /\ pc' = "fetched"
    /\ lastRead' = NoRead
    /\ UNCHANGED <<cycles, outcome, remote, project, start_at, fetchedProject,
                   projectsFile, issuesFile, backups, newProject, newIssues,
                   committed, atStart, stats, schedVars, auxVars, config, db>>

\* The except branch going on to the next turn of the loop (continue)
\* instead of leaving it.
FetchPageFail_Continues ==
    /\ pc = "fetch"
    /\ requests' = Append(requests, start_at)
    /\ fetchFailed' = TRUE
    /\ sent' = (sent \/ CanSend)
    /\ pc' = "fetch"
    /\ lastRead' = NoRead
    /\ UNCHANGED <<cycles, outcome, remote, project, issues, start_at, fetchedProject,
                   projectsFile, issuesFile, backups, newProject, newIssues,
                   committed, atStart, stats, schedVars, auxVars, config, db>>

\* One turn of the loop whose request raises (network, auth, HTTP status):
\* the except branch breaks out of the loop with issues as they are.
FetchPageFail ==
    /\ pc = "fetch"
    /\ requests' = Append(requests, start_at)
    /\ fetchFailed' = TRUE
    /\ sent' = (sent \/ CanSend)
    /\ pc' = "fetched"
    /\ lastRead' = NoRead
    /\ UNCHANGED <<cycles, outcome, remote, project, issues, start_at, fetchedProject,
                   projectsFile, issuesFile, backups, newProject, newIssues,
                   committed, atStart, stats, schedVars, auxVars, config, db>>

\* main's locals and the remote it talks to.
CycleLocals ==
    <<remote, project, issues, start_at, requests, fetchFailed, fetchedProject, sent>>

\* The cycle is over: finally storage.cleanup(), nothing to do for files, and
\* main's locals are gone with its frame.
EndCycle(kind) ==
    /\ outcome' = [kind |-> kind, at |-> pc, fetched |-> Len(issues)]
    /\ pc' = "idle"
    /\ remote' = <<>>
    /\ project' = FallbackProject
    /\ issues' = <<>>
    /\ start_at' = 0
    /\ requests' = <<>>
    /\ fetchFailed' = FALSE
    /\ fetchedProject' = NoFetchedProject
    /\ sent' = FALSE

\* main without its guard on an empty fetch: save_data is always called.
CheckIssues_NoGuard ==
    /\ pc = "fetched"
    /\ pc' = "open_project"
    /\ lastRead' = NoRead
    /\ UNCHANGED <<outcome, CycleLocals, cycles, projectsFile, issuesFile, backups,
                   newProject, newIssues, committed, atStart, stats, schedVars, auxVars, config, db>>

\* main: if not issues: return; else storage.save_data(project, issues).
CheckIssues ==
    /\ pc = "fetched"
    /\ IF issues = <<>>
          THEN EndCycle("no_issues")
          ELSE /\ pc' = "open_project"
               /\ UNCHANGED <<outcome, CycleLocals>>
    /\ lastRead' = NoRead
    /\ UNCHANGED <<cycles, projectsFile, issuesFile, backups, newProject, newIssues,
                   committed, atStart, stats, schedVars, auxVars, config, db>>


\* ---------------------------------------- FileSystemStorage.save_issues

\* What no step of save_issues touches.
SaveFrame == UNCHANGED <<cycles, backups, atStart, stats, schedVars, auxVars, config, db>>

\* save_issues returns False (its except branch); main logs the failure and
\* the cycle ends.
SaveReturnsFalse == EndCycle("save_failed")

\* project_with_timestamp is built and open(PROJECTS_FILE, 'w') truncates
\* the file, or raises.
OpenProjectsFile ==
    /\ pc = "open_project"
    /\ newProject' = ProjectWithTimestamp(project, issues, Now)
    /\ \/ /\ projectsFile' = OpenW(NoProjectDoc)
          /\ pc' = "dump_project"
          /\ UNCHANGED <<outcome, CycleLocals>>
       \/ /\ projectsFile' = projectsFile
          /\ SaveReturnsFalse
    /\ lastRead' = NoRead
    /\ UNCHANGED <<issuesFile, newIssues, committed>>
    /\ SaveFrame

\* json.dump(project_with_timestamp, f): part of the text reaches the file,
\* or all of it and the file is closed, or the write raises (disk full, a
\* value json cannot serialize) and the file stays as far as it got.
DumpProject ==
    /\ pc = "dump_project"
    /\ \/ /\ projectsFile.state = "empty"
          /\ projectsFile' = Partial(newProject)
          /\ pc' = "dump_project"
          /\ UNCHANGED <<outcome, CycleLocals>>
       \/ /\ projectsFile' = Complete(newProject)
          /\ pc' = "open_issues"
          /\ UNCHANGED <<outcome, CycleLocals>>
       \/ /\ projectsFile' = projectsFile
          /\ SaveReturnsFalse
    /\ lastRead' = NoRead
    /\ UNCHANGED <<issuesFile, newProject, newIssues, committed>>
    /\ SaveFrame

\* issues_with_metadata is built and open(ISSUES_FILE, 'w') truncates the
\* file, or raises.
OpenIssuesFile ==
    /\ pc = "open_issues"
    /\ newIssues' = IssuesWithMetadata(project, issues, Now)
    /\ \/ /\ issuesFile' = OpenW(NoIssuesDoc)
          /\ pc' = "dump_issues"
          /\ UNCHANGED <<outcome, CycleLocals>>
       \/ /\ issuesFile' = issuesFile
          /\ SaveReturnsFalse
    /\ lastRead' = NoRead
    /\ UNCHANGED <<projectsFile, newProject, committed>>
    /\ SaveFrame

\* json.dump(issues_with_metadata, f), as for the project; once the file is
\* closed save_issues returns True.
DumpIssues ==
    /\ pc = "dump_issues"
    /\ \/ /\ issuesFile.state = "empty"
          /\ issuesFile' = Partial(newIssues)
          /\ pc' = "dump_issues"
          /\ UNCHANGED <<outcome, CycleLocals, committed>>
       \/ /\ issuesFile' = Complete(newIssues)
          /\ pc' = "saved"
          /\ committed' = [has |-> TRUE, project |-> newProject, issues |-> newIssues]
          /\ UNCHANGED <<outcome, CycleLocals>>
       \/ /\ issuesFile' = issuesFile
          /\ SaveReturnsFalse
          /\ UNCHANGED <<committed>>
    /\ lastRead' = NoRead
    /\ UNCHANGED <<projectsFile, newProject, newIssues>>
    /\ SaveFrame

\* FileSystemStorage.create_backup: the canonical files are renamed into the
\* backup directory under the timestamp. Nothing in the repository calls it.
create_backup ==
    /\ backups' = backups
          \cup (IF projectsFile.state # "absent"
                   THEN {[name |-> "projects", timestamp |-> Now, content |-> projectsFile]}
                   ELSE {})
          \cup (IF issuesFile.state # "absent"
                   THEN {[name |-> "issues", timestamp |-> Now, content |-> issuesFile]}
                   ELSE {})
    /\ projectsFile' = Absent(NoProjectDoc)
    /\ issuesFile' = Absent(NoIssuesDoc)

\* main logging statistics taken before the write, from the snapshot the
\* cycle found.
ShowStats_Stale ==
    /\ pc = "saved"
    /\ stats' = get_stats(atStart.i)
    /\ EndCycle("success")
    /\ lastRead' = NoRead
    /\ UNCHANGED <<cycles, projectsFile, issuesFile, backups, newProject, newIssues,
                   committed, atStart, schedVars, auxVars, config, db>>

\* main after save_data returned True: stats = storage.get_statistics() is
\* logged and the cycle ends.
ShowStats ==
    /\ pc = "saved"
    /\ stats' = get_stats(issuesFile)
    /\ EndCycle("success")
    /\ lastRead' = NoRead
    /\ UNCHANGED <<cycles, projectsFile, issuesFile, backups, newProject, newIssues,
                   committed, atStart, schedVars, auxVars, config, db>>

\* The sync process is killed (shutdown of the system, the daemon thread's
\* parent exiting) wherever it stands.
Crash ==
    /\ pc # "idle"
    /\ EndCycle("crashed")
    /\ lastRead' = NoRead
    /\ UNCHANGED <<cycles, projectsFile, issuesFile, backups, newProject, newIssues,
                   committed, atStart, stats, schedVars, auxVars, config, db>>

\* ---------------------------------------------------------------- reading

ReadOps ==
    {"load_issues", "load_project", "api_issues", "api_project",
     "get_issues_json", "get_project_json"}

IssuesOps == {"load_issues", "api_issues", "get_issues_json"}

DoRead(op) ==
    CASE op = "load_issues" -> load_issues(issuesFile)
      [] op = "load_project" -> load_project(projectsFile)
      [] op = "api_issues" -> api_issues(issuesFile)
      [] op = "api_project" -> api_project(projectsFile)
      [] op = "get_issues_json" -> do_GET_json(issuesFile)
      [] op = "get_project_json" -> do_GET_json(projectsFile)

\* A reader, in another thread or process, reads one of the two files now.
Read ==
    /\ \E op \in ReadOps :
          LET r == DoRead(op) IN
          lastRead' = [op |-> op, code |-> r.code, body |-> r.body]
    /\ UNCHANGED <<cycleVars, schedVars, auxVars, config, db>>

Next ==
    \/ StartCycle
    \/ GetProject
    \/ FetchPageOk
    \/ FetchPageFail
    \/ CheckIssues
    \/ OpenProjectsFile
    \/ DumpProject
    \/ OpenIssuesFile
    \/ DumpIssues
    \/ ShowStats
    \/ Crash
    \/ Read

Spec == Init /\ [][Next]_vars


\* ------------------------- the cycle with its calls returning: SpecLive

\* A step of main or of a call it makes: every remote and storage call
\* returns, with a result or an exception.
MainStep ==
    \/ GetProject
    \/ FetchPageOk
    \/ FetchPageFail
    \/ CheckIssues
    \/ OpenProjectsFile
    \/ DumpProject
    \/ OpenIssuesFile
    \/ DumpIssues
    \/ ShowStats

NextLive ==
    \/ StartCycle
    \/ MainStep
    \/ Crash

\* The sync process keeps running while main has a step to take.
SpecLive == Init /\ [][NextLive]_vars /\ WF_vars(MainStep)

\* -------------- cycles that fail before they persist: SpecTransient

NextTransient ==
    \/ StartCycle
    \/ InitializeFails
    \/ MainStep
    \/ Crash

SpecTransient == Init /\ [][NextTransient]_vars

\* ------------------------------------- JiraClient alone: SpecFetch

\* main has just been entered on an empty data directory; the remote holds
\* up to MaxRemoteFetch issues.
InitFetch ==
    /\ EnvInit
    /\ pc = "get_project"
    /\ cycles = 1
    /\ outcome = NoOutcome
    /\ \E n \in 0..MaxRemoteFetch : remote = RemoteIssues(n)
    /\ project = FallbackProject
    /\ issues = <<>>
    /\ start_at = 0
    /\ requests = <<>>
    /\ fetchFailed = FALSE
    /\ fetchedProject = NoFetchedProject
    /\ sent = FALSE
    /\ projectsFile = Absent(NoProjectDoc)
    /\ issuesFile = Absent(NoIssuesDoc)
    /\ backups = {}
    /\ newProject = NoProjectDoc
    /\ newIssues = NoIssuesDoc
    /\ committed = NoSnapshot
    /\ atStart = [p |-> Absent(NoProjectDoc), i |-> Absent(NoIssuesDoc)]
    /\ stats = NoStats
    /\ lastRead = NoRead
    /\ SchedInit

NextFetch ==
    \/ GetProject
    \/ FetchPageOk
    \/ FetchPageFail

SpecFetch == InitFetch /\ [][NextFetch]_vars

\* ------------------ records with fields missing: SpecNormalize

\* The issues of a remote of n issues of which those numbered in defective
\* come without the nested fields of the set missing.
DefectiveIssues(n, defective, missing) ==
    [i \in 1..n |-> IF i \in defective THEN WithoutFields(RawIssue(i), missing)
                                       ELSE RawIssue(i)]

\* main has just been entered; the search returns records with id, key and
\* fields, any of them without some of the nested fields.
InitNormalize ==
    /\ EnvInit
    /\ pc = "get_project"
    /\ cycles = 1
    /\ outcome = NoOutcome
    /\ \E n \in 0..MaxRemote, missing \in SUBSET NestedFields :
          \E defective \in SUBSET (1..n) :
             remote = DefectiveIssues(n, defective, missing)
    /\ project = FallbackProject
    /\ issues = <<>>
    /\ start_at = 0
    /\ requests = <<>>
    /\ fetchFailed = FALSE
    /\ fetchedProject = NoFetchedProject
    /\ sent = FALSE
    /\ projectsFile = Absent(NoProjectDoc)
    /\ issuesFile = Absent(NoIssuesDoc)
    /\ backups = {}
    /\ newProject = NoProjectDoc
    /\ newIssues = NoIssuesDoc
    /\ committed = NoSnapshot
    /\ atStart = [p |-> Absent(NoProjectDoc), i |-> Absent(NoIssuesDoc)]
    /\ stats = NoStats
    /\ lastRead = NoRead
    /\ SchedInit

SpecNormalize == InitNormalize /\ [][NextFetch]_vars

\* ------------------------- settings left unset: SpecConfig

\* config.py with each of the three Jira settings set or empty.
Configs ==
    [JIRA_BASE_URL : {"", "url"}, JIRA_EMAIL : {"", "email"},
     JIRA_API_TOKEN : {"", "token"}, USE_DATABASE : {FALSE},
     JIRA_PROJECT_ID : {"10000"}]

\* DataValidator.validate_jira_config: raises ValueError for a missing or
\* empty required setting, returns True otherwise. Nothing calls it.
validate_jira_config(cfg) ==
    IF \E f \in {"JIRA_BASE_URL", "JIRA_EMAIL", "JIRA_API_TOKEN"} : cfg[f] = ""
       THEN "ValueError" ELSE "True"

\* main has just been entered: JiraClient() has put whatever email and
\* token the configuration holds into session.auth.
InitConfig ==
    /\ config \in Configs
    /\ db = NoDb
    /\ DatesInit
    /\ StorageInit
    /\ SwitchInit
    /\ WebInit
    /\ pc = "get_project"
    /\ cycles = 1
    /\ outcome = NoOutcome
    /\ \E n \in 0..MaxRemote : remote = RemoteIssues(n)
    /\ project = FallbackProject
    /\ issues = <<>>
    /\ start_at = 0
    /\ requests = <<>>
    /\ fetchFailed = FALSE
    /\ fetchedProject = NoFetchedProject
    /\ sent = FALSE
    /\ projectsFile = Absent(NoProjectDoc)
    /\ issuesFile = Absent(NoIssuesDoc)
    /\ backups = {}
    /\ newProject = NoProjectDoc
    /\ newIssues = NoIssuesDoc
    /\ committed = NoSnapshot
    /\ atStart = [p |-> Absent(NoProjectDoc), i |-> Absent(NoIssuesDoc)]
    /\ stats = NoStats
    /\ lastRead = NoRead
    /\ SchedInit

SpecConfig == InitConfig /\ [][MainStep]_vars

\* --------------- the remote changing under get_all_issues: SpecChurn

\* The identifiers of a sequence of issues.
Ids(iss) == {iss[i].id : i \in DOMAIN iss}

\* The identifier the remote gives the next issue it creates: above every
\* identifier in use or already handed out to this client.
NewId ==
    LET used == Ids(remote) \cup Ids(issues)
    IN IF used = {} THEN 1 ELSE (CHOOSE m \in used : \A x \in used : x <= m) + 1

\* The sequence with x put in at position at.
InsertAt(seq, at, x) == SubSeq(seq, 1, at - 1) \o <<x>> \o SubSeq(seq, at, Len(seq))

\* The sequence without its element at position at.
RemoveAt(seq, at) == SubSeq(seq, 1, at - 1) \o SubSeq(seq, at + 1, Len(seq))

\* What a change on the remote leaves alone in the client.
RemoteFrame ==
    UNCHANGED <<pc, cycles, outcome, project, issues, start_at, requests, fetchFailed,
                fetchedProject, sent, projectsFile, issuesFile, backups, newProject,
                newIssues, committed, atStart, stats, schedVars, auxVars, config, db>>

\* Somebody creates an issue in the project while get_all_issues pages
\* through it; the search lists it at some position.
RemoteCreates ==
    /\ pc = "fetch"
    /\ NewId <= MaxIssueId
    /\ \E at \in 1..(Len(remote) + 1) : remote' = InsertAt(remote, at, RawIssue(NewId))
    /\ lastRead' = NoRead
    /\ RemoteFrame

\* Somebody deletes an issue of the project meanwhile.
RemoteDeletes ==
    /\ pc = "fetch"
    /\ \E at \in 1..Len(remote) : remote' = RemoveAt(remote, at)
    /\ lastRead' = NoRead
    /\ RemoteFrame

\* main has just been entered on an empty data directory; the remote holds
\* up to MaxRemote issues.
InitChurn ==
    /\ EnvInit
    /\ pc = "get_project"
    /\ cycles = 1
    /\ outcome = NoOutcome
    /\ \E n \in 0..MaxRemote : remote = RemoteIssues(n)
    /\ project = FallbackProject
    /\ issues = <<>>
    /\ start_at = 0
    /\ requests = <<>>
    /\ fetchFailed = FALSE
    /\ fetchedProject = NoFetchedProject
    /\ sent = FALSE
    /\ projectsFile = Absent(NoProjectDoc)
    /\ issuesFile = Absent(NoIssuesDoc)
    /\ backups = {}
    /\ newProject = NoProjectDoc
    /\ newIssues = NoIssuesDoc
    /\ committed = NoSnapshot
    /\ atStart = [p |-> Absent(NoProjectDoc), i |-> Absent(NoIssuesDoc)]
    /\ stats = NoStats
    /\ lastRead = NoRead
    /\ SchedInit

NextChurn ==
    \/ MainStep
    \/ RemoteCreates
    \/ RemoteDeletes

SpecChurn == InitChurn /\ [][NextChurn]_vars

\* ------------------------------------- get_stats alone: SpecStats

\* Status names of the issues stored in SpecStats.
StatPool == {S_Open, S_Done, S_done, S_Unknown, S_ToDo, S_Cancelled}

\* The stored issue lists of SpecStats: up to MaxStatLen issues, numbered in
\* order, with any statuses of StatPool.
StoredIssueLists ==
    UNION {[1..n -> StatPool] : n \in 0..MaxStatLen}

WithIds(statuses) ==
    [i \in DOMAIN statuses |-> [ProcessedIssue(i) EXCEPT !.status = statuses[i]]]

\* python jira_integration.py --stats on a data directory that holds a
\* snapshot written earlier, or none.
InitStats ==
    /\ EnvInit
    /\ pc = "stats_only"
    /\ cycles = 1
    /\ outcome = NoOutcome
    /\ remote = <<>>
    /\ project = FallbackProject
    /\ issues = <<>>
    /\ start_at = 0
    /\ requests = <<>>
    /\ fetchFailed = FALSE
    /\ fetchedProject = NoFetchedProject
    /\ sent = FALSE
    /\ \/ /\ projectsFile = Absent(NoProjectDoc)
          /\ issuesFile = Absent(NoIssuesDoc)
          /\ committed = NoSnapshot
       \/ \E sts \in StoredIssueLists :
             LET p == ProjectWithTimestamp(FallbackProject, WithIds(sts), 1)
                 i == IssuesWithMetadata(FallbackProject, WithIds(sts), 1)
             IN /\ projectsFile = Complete(p)
                /\ issuesFile = Complete(i)
                /\ committed = [has |-> TRUE, project |-> p, issues |-> i]
    /\ backups = {}
    /\ newProject = NoProjectDoc
    /\ newIssues = NoIssuesDoc
    /\ atStart = [p |-> projectsFile, i |-> issuesFile]
    /\ stats = NoStats
    /\ lastRead = NoRead
    /\ SchedInit

\* show_stats_only: storage.get_statistics() is printed; no sync runs.
ShowStatsOnly ==
    /\ pc = "stats_only"
    /\ stats' = get_stats(issuesFile)
    /\ pc' = "idle"
    /\ lastRead' = NoRead
    /\ UNCHANGED <<cycles, outcome, CycleLocals, projectsFile, issuesFile, backups,
                   newProject, newIssues, committed, atStart, schedVars, auxVars, config, db>>

NextStats == ShowStatsOnly

SpecStats == InitStats /\ [][NextStats]_vars

\* ------------------------------------- _parse_date alone: SpecDates

\* get_all_issues is about to call _parse_date on a field of a record.
InitDates ==
    /\ config = ConfigAsShipped
    /\ db = NoDb
    /\ date_str \in DateValues
    /\ parsed = NotParsed
    /\ StorageInit
    /\ SwitchInit
    /\ WebInit
    /\ CycleInit
    /\ SchedInit

\* self._parse_date(issue['fields'].get(...)) returns.
ParseDate ==
    /\ parsed = NotParsed
    /\ parsed' = _parse_date(date_str)
    /\ UNCHANGED <<cycleVars, lastRead, schedVars, config, db, date_str, mgrVars, switcher, web>>

NextDates == ParseDate

SpecDates == InitDates /\ [][NextDates]_vars

\* ----------------------------- project_switcher.py: SpecSwitch

\* project_switcher.PROJECTS.
PROJECTS ==
    [donation |-> [id |-> "10000", key |-> "DP", name |-> "Donation Platform"],
     support |-> [id |-> "10001", key |-> "SUP", name |-> "Support"]]

\* sys.argv[1].lower() of the runs followed; "billing" is not in PROJECTS.
Aliases == {"donation", "support", "billing"}

\* sys.argv[2].lower(), "None" when absent; the runs followed keep the file
\* sink.
StorageModes == {"None", "filesystem"}

\* sync_project(project_alias, storage_mode): an unknown alias returns False
\* at once; a known one assigns Config.JIRA_PROJECT_ID, and USE_DATABASE when
\* a storage mode is given, and enters jira_integration.main().
SyncProject ==
    /\ pc = "idle"
    /\ switcher.returned # "running"
    /\ cycles < MaxCycles
    /\ \E project_alias \in Aliases, storage_mode \in StorageModes :
          IF project_alias \notin DOMAIN PROJECTS
             THEN /\ switcher' = [alias |-> project_alias, storage_mode |-> storage_mode,
                                  returned |-> "False"]
                  /\ UNCHANGED <<cycleVars, lastRead, config>>
             ELSE /\ switcher' = [alias |-> project_alias, storage_mode |-> storage_mode,
                                  returned |-> "running"]
                  /\ config' = [config EXCEPT
                                  !.JIRA_PROJECT_ID = PROJECTS[project_alias].id,
                                  !.USE_DATABASE = IF storage_mode = "filesystem"
                                                      THEN FALSE ELSE @]
                  /\ \E n \in 0..MaxRemote : remote' = RemoteIssues(n)
                  /\ cycles' = cycles + 1
                  /\ pc' = "get_project"
                  /\ outcome' = NoOutcome
                  /\ newProject' = NoProjectDoc
                  /\ newIssues' = NoIssuesDoc
                  /\ atStart' = [p |-> projectsFile, i |-> issuesFile]
                  /\ stats' = NoStats
                  /\ lastRead' = NoRead
                  /\ UNCHANGED <<project, issues, start_at, requests, fetchFailed,
                                 fetchedProject, sent, projectsFile, issuesFile, backups,
                                 committed>>
    /\ UNCHANGED <<schedVars, datesVars, mgrVars, web, db>>

\* jira_integration.main() has returned (it logs its own exceptions):
\* sync_project returns True.
SyncReturns ==
    /\ pc = "idle"
    /\ switcher.returned = "running"
    /\ switcher' = [switcher EXCEPT !.returned = "True"]
    /\ lastRead' = NoRead
    /\ UNCHANGED <<cycleVars, schedVars, datesVars, mgrVars, web, config, db>>

NextSwitch == SyncProject \/ SyncReturns \/ MainStep

SpecSwitch == Init /\ [][NextSwitch]_vars

\* ------------------------------ flask_app: login and the routes: SpecWeb

\* The contents users.json is given by whoever administers the dashboard.
UsersFiles ==
    {<<[guest |-> [password_hash |-> hash_password("pw-guest"), role |-> "viewer"]]>>,
     <<[jiradd |-> [password_hash |-> hash_password("pw-new"), role |-> "admin"],
        guest |-> [password_hash |-> hash_password("pw-guest"), role |-> "viewer"]]>>}

\* The user names and passwords typed into the login form.
Usernames == {"jiradd", "guest", "nobody"}

Passwords == {"pw-jiradd", "pw-guest", "pw-new", ""}

\* The paths asked for with GET; the last one is a file of the directory, for
\* the route /<path:filename>.
ProtectedPaths == {"/dashboard", "/api/issues", "/api/project", "/api/status", "/dashboard.js"}

Paths == ProtectedPaths \cup {"/"}

\* flask_app.is_authenticated.
is_authenticated(session) ==
    /\ "user_id" \in session.keys
    /\ IF "authenticated" \in session.keys THEN session.authenticated ELSE FALSE

\* flask_app.load_users_from_file: users.json, when it exists, replaces USERS.
load_users_from_file(users, users_json) ==
    IF users_json # NoUsersFile THEN users_json[1] ELSE users

\* redirect(url_for(...)).
Redirect(to) == [status |-> "302", location |-> to, body |-> ""]

\* A response that carries a page, a file or a JSON document.
Page(status, body) == [status |-> status, location |-> "", body |-> body]

\* The decorator letting every request through to the view.
require_auth_Open(session, view) == view

\* flask_app.require_auth: the view's response for an authenticated session,
\* a redirect to the login page otherwise.
require_auth(session, view) ==
    IF ~is_authenticated(session) THEN Redirect("/login") ELSE view

\* What the view functions behind require_auth return: dashboard, api_issues,
\* api_project, api_status, serve_static.
View(path, session) ==
    CASE path = "/dashboard" -> Page("200", "unified_dashboard.html")
      [] path = "/api/issues" -> Page(api_issues(issuesFile).code, "issues")
      [] path = "/api/project" -> Page(api_project(projectsFile).code, "project")
      [] path = "/api/status" -> Page("200", session.user_id)
      [] OTHER -> Page("200", path)

\* The response of the application to GET path.
Route(path, session) ==
    IF path = "/"
       THEN IF is_authenticated(session) THEN Redirect("/dashboard") ELSE Redirect("/login")
       ELSE require_auth(session, View(path, session))

\* The file a GET has read and delivered, if any.
Delivered(path, response) ==
    IF response.status = "302" \/ path \notin {"/api/issues", "/api/project"}
       THEN NoRead
    ELSE IF path = "/api/issues"
       THEN LET r == api_issues(issuesFile)
            IN [op |-> "api_issues", code |-> r.code, body |-> r.body]
    ELSE LET r == api_project(projectsFile)
         IN [op |-> "api_project", code |-> r.code, body |-> r.body]

WebFrame == UNCHANGED <<cycleVars, schedVars, datesVars, mgrVars, switcher, config, db>>

\* GET of one of the paths, with the cookie the browser holds.
Get ==
    /\ \E path \in Paths :
          LET response == Route(path, web.session)
          IN /\ web' = [web EXCEPT !.request = [method |-> "GET", path |-> path],
                                   !.response = response]
             /\ lastRead' = Delivered(path, response)
    /\ WebFrame

\* GET /login: the users are reloaded and the form is rendered.
LoginGet ==
    /\ web' = [web EXCEPT !.USERS = load_users_from_file(web.USERS, web.users_json),
                          !.request = [method |-> "GET", path |-> "/login"],
                          !.response = Page("200", "login")]
    /\ lastRead' = NoRead
    /\ WebFrame

\* POST /login with the form's username, password and remember: a known user
\* with the matching hash gets the session keys set and is sent to the
\* dashboard; anything else gets the form again, the session as it was.
LoginPost ==
    /\ \E username \in Usernames, password \in Passwords, remember \in BOOLEAN :
          LET users == load_users_from_file(web.USERS, web.users_json)
              known == /\ username \in DOMAIN users
                       /\ users[username].password_hash = hash_password(password)
          IN /\ IF /\ username \in DOMAIN users
                   /\ verify_password(password, users[username].password_hash)
                   THEN web' = [web EXCEPT
                                  !.USERS = users,
                                  !.session = [keys |-> {"user_id", "user_role",
                                                         "authenticated", "login_time"},
                                               user_id |-> username,
                                               user_role |-> users[username].role,
                                               authenticated |-> TRUE,
                                               login_time |-> Now,
                                               permanent |-> IF remember THEN TRUE
                                                             ELSE web.session.permanent],
                                  !.request = [method |-> "POST", path |-> "/login"],
                                  !.response = Redirect("/dashboard"),
                                  !.loggedIn = @ \/ known]
                   ELSE web' = [web EXCEPT
                                  !.USERS = users,
                                  !.request = [method |-> "POST", path |-> "/login"],
                                  !.response = Page("200", "Invalid username or password"),
                                  !.loggedIn = @ \/ known]
    /\ lastRead' = NoRead
    /\ WebFrame

\* GET /logout: session.clear() and a redirect to the login page.
Logout ==
    /\ web' = [web EXCEPT !.session = EmptySession,
                          !.request = [method |-> "GET", path |-> "/logout"],
                          !.response = Redirect("/login?logged_out=1"),
                          !.loggedIn = FALSE,
                          !.loggedOut = @ \/ web.loggedIn]
    /\ lastRead' = NoRead
    /\ WebFrame

\* users.json is written, replaced or removed next to the application.
UsersFileChanges ==
    /\ \E f \in UsersFiles \cup {NoUsersFile} :
          /\ f # web.users_json
          /\ web' = [web EXCEPT !.users_json = f]
    /\ lastRead' = NoRead
    /\ WebFrame

\* The application serving a data directory that holds no snapshot, a
\* snapshot of one issue, or one whose issues file is being rewritten.
InitWeb ==
    /\ EnvInit
    /\ SchedInit
    /\ pc = "idle"
    /\ cycles = 0
    /\ outcome = NoOutcome
    /\ remote = <<>>
    /\ project = FallbackProject
    /\ issues = <<>>
    /\ start_at = 0
    /\ requests = <<>>
    /\ fetchFailed = FALSE
    /\ fetchedProject = NoFetchedProject
    /\ sent = FALSE
    /\ \/ /\ projectsFile = Absent(NoProjectDoc)
          /\ issuesFile = Absent(NoIssuesDoc)
          /\ committed = NoSnapshot
       \/ LET one == <<ProcessedIssue(1)>>
              p == ProjectWithTimestamp(FallbackProject, one, 1)
              i == IssuesWithMetadata(FallbackProject, one, 1)
          IN /\ projectsFile = Complete(p)
             /\ issuesFile \in {Complete(i), OpenW(NoIssuesDoc)}
             /\ committed = [has |-> TRUE, project |-> p, issues |-> i]
    /\ backups = {}
    /\ newProject = NoProjectDoc
    /\ newIssues = NoIssuesDoc
    /\ atStart = [p |-> projectsFile, i |-> issuesFile]
    /\ stats = NoStats
    /\ lastRead = NoRead

NextWeb ==
    \/ Get
    \/ LoginGet
    \/ LoginPost
    \/ Logout
    \/ UsersFileChanges

SpecWeb == InitWeb /\ [][NextWeb]_vars

\* ----------------------- StorageFactory and StorageManager: SpecStorage

\* The values of the environment variable USE_DATABASE.
EnvValues == {"false", "true"}

\* sys.argv[1] of the runs that construct a StorageManager ("" for none).
Arguments == {"", "--filesystem", "--database", "--stats"}

\* Config.USE_DATABASE as the class body sets it.
ClassFlag(env, mysql_available) == (env = "true") /\ mysql_available

\* Config.USE_DATABASE once the command line has been read.
FlagFor(env, mysql_available, arg) ==
    CASE arg = "--filesystem" -> FALSE
      [] arg = "--database" -> TRUE
      [] OTHER -> ClassFlag(env, mysql_available)

\* create_storage ignoring the flag.
create_storage_AlwaysFiles(use_database) == "FileSystemStorage"

\* StorageFactory.create_storage.
create_storage(use_database) ==
    IF use_database THEN "Database" ELSE "FileSystemStorage"

\* One call of a StorageManager method and the sink whose method ran.
Served(op, by) == [op |-> op, by |-> by]

StorageFrame ==
    UNCHANGED <<cycleVars, lastRead, schedVars, db, datesVars, switcher, web>>

\* python jira_integration.py [arg]: the module is loaded, Config is built,
\* the argument is read and main or show_stats_only is entered.
ProcessStarts ==
    /\ mgr.pc = "off"
    /\ run.runs < MaxCycles
    /\ \E env \in EnvValues, mysql_available \in BOOLEAN, arg \in Arguments :
          /\ run' = [runs |-> run.runs + 1, USE_DATABASE |-> env,
                         MYSQL_AVAILABLE |-> mysql_available, argv |-> arg]
          /\ config' = [config EXCEPT !.USE_DATABASE = FlagFor(env, mysql_available, arg)]
    /\ mgr' = [NoManager EXCEPT !.pc = "new"]
    /\ StorageFrame

\* StorageManager.__init__.
NewStorageManager ==
    /\ mgr.pc = "new"
    /\ LET storage == create_storage(config.USE_DATABASE) IN
          mgr' = [mgr EXCEPT !.storage = storage,
                             !.is_database = (storage = "Database"),
                             !.pc = "initialize"]
    /\ UNCHANGED <<run, config>>
    /\ StorageFrame

\* StorageManager.initialize: connect and init_tables of the database, which
\* may fail, or ensure_directories; after a failure main and show_stats_only
\* return.
Initialize ==
    /\ mgr.pc = "initialize"
    /\ \E ok \in BOOLEAN :
          /\ (~mgr.is_database) => ok
          /\ mgr' = [mgr EXCEPT
                        !.served = Append(@, Served("initialize",
                                      IF mgr.is_database THEN "Database"
                                                         ELSE "FileSystemStorage")),
                        !.pc = IF ~ok THEN (IF run.argv = "--stats" THEN "off"
                                                                        ELSE "cleanup")
                               ELSE IF run.argv = "--stats" THEN "get_statistics"
                               ELSE "fetch"]
    /\ UNCHANGED <<run, config>>
    /\ StorageFrame

\* main between initialize and save_data: the fetch returns issues, or none
\* and main returns.
Fetched ==
    /\ mgr.pc = "fetch"
    /\ \E some \in BOOLEAN :
          mgr' = [mgr EXCEPT !.pc = IF some THEN "save_data" ELSE "cleanup"]
    /\ UNCHANGED <<run, config>>
    /\ StorageFrame

\* StorageManager.save_data: self.storage.save_issues, True or False.
SaveData ==
    /\ mgr.pc = "save_data"
    /\ \E ok \in BOOLEAN :
          mgr' = [mgr EXCEPT !.served = Append(@, Served("save_data", mgr.storage)),
                             !.pc = IF ok THEN "get_statistics" ELSE "cleanup"]
    /\ UNCHANGED <<run, config>>
    /\ StorageFrame

\* StorageManager.get_statistics: self.storage.get_stats.
GetStatistics ==
    /\ mgr.pc = "get_statistics"
    /\ mgr' = [mgr EXCEPT !.served = Append(@, Served("get_statistics", mgr.storage)),
                          !.pc = "cleanup"]
    /\ UNCHANGED <<run, config>>
    /\ StorageFrame

\* StorageManager.cleanup: close of the database; nothing for the files.
Cleanup ==
    /\ mgr.pc = "cleanup"
    /\ mgr' = [mgr EXCEPT !.served = Append(@, Served("cleanup",
                                         IF mgr.is_database THEN "Database" ELSE "none")),
                          !.pc = "off"]
    /\ UNCHANGED <<run, config>>
    /\ StorageFrame

NextStorage ==
    \/ ProcessStarts
    \/ NewStorageManager
    \/ Initialize
    \/ Fetched
    \/ SaveData
    \/ GetStatistics
    \/ Cleanup

SpecStorage == Init /\ [][NextStorage]_vars

\* --------------------- save_data on the two sinks: SpecSinks

\* Issue number i after an edit on the remote: another status, and another
\* key (the project's key was changed).
EditedIssue(i) == [ProcessedIssue(i) EXCEPT !.status = S_done, !.key = <<"DON", i>>]

\* The projects handed to save_data.
SinkProjects == {RemoteProject, FallbackProject}

\* The issue lists handed to save_data: one or two issues, an issue dropped,
\* an issue edited, an identifier twice.
SinkIssueLists ==
    {<<ProcessedIssue(1)>>,
     <<ProcessedIssue(2)>>,
     <<EditedIssue(1)>>,
     <<ProcessedIssue(1), ProcessedIssue(2)>>,
     <<EditedIssue(1), ProcessedIssue(2)>>,
     <<ProcessedIssue(1), ProcessedIssue(1)>>}

\* What the steps of Database.save_issues leave alone.
DbFrame ==
    UNCHANGED <<cycles, outcome, CycleLocals, projectsFile, issuesFile, backups,
                newProject, newIssues, committed, atStart, stats, schedVars, auxVars, config>>

\* save_data(project, issues) is called on a StorageManager of each kind, the
\* relational one first: Database.save_issues takes a cursor, in the
\* transaction the connection opens with its first statement.
CallWrite ==
    /\ pc = "idle"
    /\ cycles < MaxCycles
    /\ cycles' = cycles + 1
    /\ \E p \in SinkProjects, iss \in SinkIssueLists :
          /\ project' = p
          /\ issues' = iss
          /\ db' = [db EXCEPT !.args = [project |-> p, issues |-> iss],
                              !.prevArgs = db.args,
                              !.prevOk = (db.result = "committed" /\ outcome.kind = "success"),
                              !.result = "running",
                              !.atStart = [projects |-> db.projects, issues |-> db.issues],
                              !.txProjects = db.projects,
                              !.txIssues = db.issues,
                              !.k = 0,
                              !.stats = NoStats]
    /\ pc' = "db_project"
    /\ outcome' = NoOutcome
    /\ atStart' = [p |-> projectsFile, i |-> issuesFile]
    /\ stats' = NoStats
    /\ lastRead' = NoRead
    /\ UNCHANGED <<remote, start_at, requests, fetchFailed, fetchedProject, sent,
                   projectsFile, issuesFile, backups, newProject, newIssues,
                   committed, schedVars, auxVars, config>>

\* cursor.execute of the project statement.
DbUpsertProject ==
    /\ pc = "db_project"
    /\ db' = [db EXCEPT !.txProjects = UpsertProject(db.txProjects, ProjectValues(project), Now),
                        !.k = 1]
    /\ pc' = "db_issue"
    /\ lastRead' = NoRead
    /\ DbFrame

\* for issue in issues_data: cursor.execute of the issue statement.
DbUpsertIssue ==
    /\ pc = "db_issue"
    /\ db.k <= Len(issues)
    /\ db' = [db EXCEPT !.txIssues = UpsertIssue(db.txIssues, IssueValues(issues[db.k], project), Now),
                        !.k = db.k + 1]
    /\ pc' = "db_issue"
    /\ lastRead' = NoRead
    /\ DbFrame

\* self.connection.commit() after the loop; save_issues returns True.
DbCommit ==
    /\ pc = "db_issue"
    /\ db.k > Len(issues)
    /\ db' = [db EXCEPT !.projects = db.txProjects,
                        !.issues = db.txIssues,
                        !.result = "committed"]
    /\ pc' = "db_stats"
    /\ lastRead' = NoRead
    /\ DbFrame

\* The except branch committing what the transaction had done so far.
DbExecuteRaises_KeepsRows ==
    /\ pc \in {"db_project", "db_issue"}
    /\ db' = [db EXCEPT !.projects = db.txProjects,
                        !.issues = db.txIssues,
                        !.result = "rolled_back",
                        !.failed = TRUE]
    /\ pc' = "file_save"
    /\ lastRead' = NoRead
    /\ DbFrame

\* A statement or the commit raises: self.connection.rollback() in the
\* except branch, and save_issues returns False.
DbExecuteRaises ==
    /\ pc \in {"db_project", "db_issue"}
    /\ db' = [db EXCEPT !.txProjects = db.projects,
                        !.txIssues = db.issues,
                        !.result = "rolled_back",
                        !.failed = TRUE]
    /\ pc' = "file_save"
    /\ lastRead' = NoRead
    /\ DbFrame

\* Database.get_stats after a save that returned True.
DbShowStats ==
    /\ pc = "db_stats"
    /\ db' = [db EXCEPT !.stats = DbGetStats(db.txIssues)]
    /\ pc' = "file_save"
    /\ lastRead' = NoRead
    /\ DbFrame

\* save_issues adding the issues to those the file holds.
FileSave_Appends ==
    /\ pc = "file_save"
    /\ LET p == ProjectWithTimestamp(project, issuesFile.doc.issues \o issues, Now)
           i == IssuesWithMetadata(project, issuesFile.doc.issues \o issues, Now)
       IN /\ newProject' = p
          /\ newIssues' = i
          /\ projectsFile' = Complete(p)
          /\ issuesFile' = Complete(i)
          /\ committed' = [has |-> TRUE, project |-> p, issues |-> i]
    /\ pc' = "saved"
    /\ lastRead' = NoRead
    /\ UNCHANGED <<outcome, CycleLocals>>
    /\ SaveFrame

\* FileSystemStorage.save_issues from its call to return True, nothing
\* interrupting it: both documents are built and written whole.
FileSave ==
    /\ pc = "file_save"
    /\ LET p == ProjectWithTimestamp(project, issues, Now)
           i == IssuesWithMetadata(project, issues, Now)
       IN /\ newProject' = p
          /\ newIssues' = i
          /\ projectsFile' = Complete(p)
          /\ issuesFile' = Complete(i)
          /\ committed' = [has |-> TRUE, project |-> p, issues |-> i]
    /\ pc' = "saved"
    /\ lastRead' = NoRead
    /\ UNCHANGED <<outcome, CycleLocals>>
    /\ SaveFrame

NextSinks ==
    \/ CallWrite
    \/ DbUpsertProject
    \/ DbUpsertIssue
    \/ DbCommit
    \/ DbExecuteRaises
    \/ DbShowStats
    \/ FileSave
    \/ ShowStats

\* Both sinks empty: the data directory without files, the tables created
\* and without rows.
SpecSinks == Init /\ [][NextSinks]_vars

\* ------------------------- the refresh scheduler: dashboard_server.py

SchedFrame == UNCHANGED <<cycleVars, lastRead, auxVars, config, db>>

\* start_dashboard_server: stop_refresh = False and the refresh thread starts.
StartRefreshThread ==
    /\ schedPc = "off"
    /\ schedPc' = "while"
    /\ stop_refresh' = FALSE
    /\ UNCHANGED <<ticks, children, runSeconds, refreshes, stopSeconds, fetchResult>>
    /\ SchedFrame

\* auto_refresh_jira: while not stop_refresh; the for loop starts at 0.
WhileTest ==
    /\ schedPc = "while"
    /\ IF stop_refresh THEN schedPc' = "exit" /\ ticks' = ticks
                       ELSE schedPc' = "for" /\ ticks' = 0
    /\ UNCHANGED <<stop_refresh, children, runSeconds, refreshes, stopSeconds,
                   fetchResult>>
    /\ SchedFrame

\* for _ in range(300): if stop_refresh: return; else time.sleep(1) is next.
ForTest ==
    /\ schedPc = "for"
    /\ schedPc' = IF ticks = RefreshSeconds THEN "if_run"
                  ELSE IF stop_refresh THEN "exit"
                  ELSE "sleep"
    /\ UNCHANGED <<ticks, stop_refresh, children, runSeconds, refreshes, stopSeconds,
                   fetchResult>>
    /\ SchedFrame

\* time.sleep(1) returns.
Sleep ==
    /\ schedPc = "sleep"
    /\ ticks' = ticks + 1
    /\ schedPc' = "for"
    /\ stopSeconds' = IF stop_refresh THEN stopSeconds + 1 ELSE stopSeconds
    /\ UNCHANGED <<stop_refresh, children, runSeconds, refreshes, fetchResult>>
    /\ SchedFrame

\* run_jira_fetch starting the sync without waiting for its exit.
RunJiraFetch_NoWait ==
    /\ schedPc = "if_run"
    /\ IF stop_refresh
          THEN /\ schedPc' = "while"
               /\ UNCHANGED <<children, runSeconds, refreshes>>
          ELSE /\ refreshes < MaxRefresh
               /\ schedPc' = "while"
               /\ children' = children + 1
               /\ refreshes' = refreshes + 1
               /\ runSeconds' = 0
    /\ UNCHANGED <<ticks, stop_refresh, stopSeconds, fetchResult>>
    /\ SchedFrame

\* if not stop_refresh: run_jira_fetch(), whose subprocess.run starts the
\* sync (jira_integration.py, the cycle of Spec) and waits for its exit.
RunJiraFetch ==
    /\ schedPc = "if_run"
    /\ IF stop_refresh
          THEN /\ schedPc' = "while"
               /\ UNCHANGED <<children, runSeconds, refreshes>>
          ELSE /\ refreshes < MaxRefresh
               /\ schedPc' = "in_fetch"
               /\ children' = children + 1
               /\ refreshes' = refreshes + 1
               /\ runSeconds' = 0
    /\ UNCHANGED <<ticks, stop_refresh, stopSeconds, fetchResult>>
    /\ SchedFrame

\* run_jira_fetch whose subprocess.run raises (the interpreter cannot be
\* started): the except branch prints and no sync runs.
RunJiraFetchRaises ==
    /\ schedPc = "if_run"
    /\ ~stop_refresh
    /\ refreshes < MaxRefresh
    /\ schedPc' = "while"
    /\ refreshes' = refreshes + 1
    /\ fetchResult' = "error"
    /\ UNCHANGED <<ticks, stop_refresh, children, runSeconds, stopSeconds>>
    /\ SchedFrame

\* A second passes while the sync subprocess runs.
ChildRuns ==
    /\ children > 0
    /\ runSeconds < MaxRunSeconds
    /\ runSeconds' = runSeconds + 1
    /\ stopSeconds' = IF stop_refresh THEN stopSeconds + 1 ELSE stopSeconds
    /\ UNCHANGED <<schedPc, ticks, stop_refresh, children, refreshes, fetchResult>>
    /\ SchedFrame

\* What run_jira_fetch prints for the return code of the sync.
PrintedFor(returncode) == IF returncode = 0 THEN "success" ELSE "warning"

\* auto_refresh_jira giving up after a sync that exited non-zero.
ChildExits_StopsOnFailure ==
    /\ schedPc = "in_fetch"
    /\ children > 0
    /\ children' = children - 1
    /\ \E returncode \in {0, 1} :
          /\ fetchResult' = PrintedFor(returncode)
          /\ schedPc' = IF returncode = 0 THEN "while" ELSE "exit"
    /\ UNCHANGED <<ticks, stop_refresh, runSeconds, refreshes, stopSeconds>>
    /\ SchedFrame

\* The sync subprocess exits, with return code 0 or not: subprocess.run
\* returns, run_jira_fetch prints and returns to the while loop.
ChildExits ==
    /\ schedPc = "in_fetch"
    /\ children > 0
    /\ children' = children - 1
    /\ \E returncode \in {0, 1} : fetchResult' = PrintedFor(returncode)
    /\ schedPc' = "while"
    /\ UNCHANGED <<ticks, stop_refresh, runSeconds, refreshes, stopSeconds>>
    /\ SchedFrame

\* KeyboardInterrupt in start_dashboard_server: stop_refresh = True.
SetStop ==
    /\ schedPc # "off"
    /\ ~stop_refresh
    /\ stop_refresh' = TRUE
    /\ UNCHANGED <<schedPc, ticks, children, runSeconds, refreshes, stopSeconds,
                   fetchResult>>
    /\ SchedFrame

NextSched ==
    \/ StartRefreshThread
    \/ WhileTest
    \/ ForTest
    \/ Sleep
    \/ RunJiraFetch
    \/ RunJiraFetchRaises
    \/ ChildRuns
    \/ ChildExits
    \/ SetStop

SpecSched == Init /\ [][NextSched]_vars

\* ------------------- the scheduler with every sync returning: SpecRetry

\* A step of the refresh thread, which runs while it has one to take.
ThreadStep ==
    \/ WhileTest
    \/ ForTest
    \/ Sleep
    \/ RunJiraFetch
    \/ RunJiraFetchRaises

NextRetry ==
    \/ StartRefreshThread
    \/ ThreadStep
    \/ ChildExits
    \/ SetStop

\* The thread is started and scheduled, and every sync started exits sooner
\* or later; nothing obliges Ctrl+C to come.
SpecRetry ==
    /\ Init
    /\ [][NextRetry]_vars
    /\ WF_vars(StartRefreshThread)
    /\ WF_vars(ThreadStep)
    /\ WF_vars(ChildExits)


\* ================================================================= claims

\* The steps of save_issues during which the files are being written.
SaveSteps == {"open_project", "dump_project", "open_issues", "dump_issues"}

\* The last save_issues was cut short: the process was killed inside it, or
\* an I/O error made it return False.
SaveInterrupted ==
    /\ pc = "idle"
    /\ outcome.kind \in {"crashed", "save_failed"}
    /\ outcome.at \in SaveSteps

OldDoc(op) == IF op \in IssuesOps THEN committed.issues ELSE committed.project

NewDoc(op) == IF op \in IssuesOps THEN newIssues ELSE newProject

\* The read delivered a whole document, that of the committed snapshot or of
\* the one being written, or reported not-found when nothing was ever
\* committed.
GoodRead(r) ==
    \/ /\ r.code \in {"data", "200"}
       /\ r.body.state = "complete"
       /\ r.body.doc \in {OldDoc(r.op), NewDoc(r.op)}
    \/ /\ r.code \in {"None", "404"}
       /\ ~committed.has

\* C1: after a save_issues interrupted at any of its steps (crash or I/O
\* error), every read returns the complete previous or the complete new
\* document, never a truncated or empty one, an error, or not-found when a
\* snapshot had been committed.
C1_InterruptedWriteIsAtomic ==
    (SaveInterrupted /\ lastRead.op # "none") => GoodRead(lastRead)

\* C2: while save_issues is in progress, every read made by a concurrent
\* reader returns a complete committed document (old or new), or not-found
\* only if no snapshot was ever committed; never an error or a torn file.
C2_ConcurrentReadSeesCommitted ==
    (pc \in SaveSteps /\ lastRead.op # "none") => GoodRead(lastRead)

\* C3: whenever both canonical files can be read, the project document and
\* the issues document are those of one snapshot: same project, and the
\* project's issues_count is the issues document's total_issues.
C3_ProjectAndIssuesSameSnapshot ==
    LET p == load_project(projectsFile)
        i == load_issues(issuesFile)
    IN (p.code = "data" /\ i.code = "data") =>
          /\ p.body.doc.issues_count = i.body.doc.total_issues
          /\ p.body.doc.id = i.body.doc.project_id
          /\ p.body.doc.key = i.body.doc.project_key

\* C4: when a storage write fails at any step, save_data returns False, the
\* cycle ends failed, and readers still read the complete previously
\* committed snapshot from the canonical paths.
C4_FailedWriteKeepsPrevious ==
    (pc = "idle" /\ outcome.kind = "save_failed" /\ committed.has) =>
        /\ load_project(projectsFile) = Result("data", Complete(committed.project))
        /\ load_issues(issuesFile) = Result("data", Complete(committed.issues))

\* C5: after a successful write that replaced committed snapshot files, the
\* content of the overwritten project and issues files exists in the backup
\* directory.
C5_OverwrittenSnapshotIsBackedUp ==
    (pc = "idle" /\ outcome.kind = "success"
        /\ atStart.p.state = "complete" /\ atStart.i.state = "complete") =>
        /\ \E b \in backups : b.name = "projects" /\ b.content = atStart.p
        /\ \E b \in backups : b.name = "issues" /\ b.content = atStart.i

\* C6: a sync cycle whose fetch returned zero issues never enters save_issues
\* and ends with both canonical files exactly as it found them, so a read
\* after it returns the prior issues document.
C6_EmptyFetchWritesNothing ==
    /\ (pc \in SaveSteps \cup {"saved"}) => issues # <<>>
    /\ (pc = "idle" /\ outcome.kind # "none"
          /\ outcome.at \notin {"get_project", "fetch"} /\ outcome.fetched = 0) =>
          /\ outcome.kind \in {"no_issues", "crashed"}
          /\ projectsFile = atStart.p
          /\ issuesFile = atStart.i
          /\ load_issues(issuesFile) = load_issues(atStart.i)

\* A cycle that fetched nothing has ended over a non-empty snapshot, and a
\* reader has just read the prior issues from it.
C6_Witness ==
    /\ pc = "idle"
    /\ outcome.kind = "no_issues"
    /\ atStart.i.state = "complete"
    /\ atStart.i.doc.total_issues > 0
    /\ lastRead.op = "load_issues"
    /\ lastRead.code = "data"
    /\ lastRead.body = atStart.i

\* C7: at most one sync started by the scheduler runs at a time; one is
\* started only when none runs and a full wait of RefreshSeconds sleeps has
\* been served, the scheduler then blocks until it exits, and after the exit
\* it goes back to the start of a new wait (time that passed during the run
\* starts nothing).
C7_OneCycleInFlight ==
    [][/\ children' <= 1
       /\ (children' > children) =>
             (children = 0 /\ ticks = RefreshSeconds /\ schedPc' = "in_fetch")
       /\ (schedPc = "in_fetch" /\ schedPc' # "in_fetch") =>
             (children' = 0 /\ schedPc' = "while")
       /\ (schedPc = "in_fetch") => (refreshes' = refreshes)]_vars

\* The first sync ran for longer than a whole interval; no second one was
\* started meanwhile, and the scheduler has served a new full wait since.
C7_Witness ==
    /\ schedPc = "if_run"
    /\ refreshes = 1
    /\ children = 0
    /\ runSeconds > RefreshSeconds
    /\ ticks = RefreshSeconds
    /\ ~stop_refresh

\* The startAt values 0, P, 2P, ... of k requests.
Offsets(k) == [j \in 1..k |-> (j - 1) * JIRA_MAX_RESULTS]

\* C8: get_all_issues requests pages of JIRA_MAX_RESULTS at offsets 0, P,
\* 2P, ... and stops at the first page shorter than P: when no request
\* fails, the result is all the remote's issues in order, fetched in
\* (number of issues \div P) + 1 requests.
C8_PaginationStopsAtShortPage ==
    /\ (pc = "fetch") =>
          /\ requests = Offsets(Len(requests))
          /\ start_at = Len(requests) * JIRA_MAX_RESULTS
    /\ (pc = "fetched" /\ ~fetchFailed) =>
          /\ issues = batch_issues(remote)
          /\ requests = Offsets((Len(remote) \div JIRA_MAX_RESULTS) + 1)

\* Pages of sizes [P, P, P, 0]: 3P issues in 4 requests.
C8_Witness ==
    /\ pc = "fetched"
    /\ ~fetchFailed
    /\ Len(issues) = 3 * JIRA_MAX_RESULTS
    /\ Len(requests) = 4

\* C9: when a page request fails, get_all_issues stops at that request and
\* returns exactly the issues of the pages fetched before it.
C9_FailedPageReturnsPartial ==
    (pc = "fetched" /\ fetchFailed) =>
        /\ requests = Offsets(Len(requests))
        /\ issues = batch_issues(SubSeq(remote, 1, (Len(requests) - 1) * JIRA_MAX_RESULTS))
        /\ Len(issues) = (Len(requests) - 1) * JIRA_MAX_RESULTS

\* The third request failed after two full pages.
C9_Witness ==
    /\ pc = "fetched"
    /\ fetchFailed
    /\ Len(requests) = 3
    /\ Len(issues) = 2 * JIRA_MAX_RESULTS

\* The steps of main after the project fetch.
AfterGetProject == {"fetch", "fetched", "saved"} \cup SaveSteps

\* C11: when get_project fails for the id and for the key, the cycle goes on
\* with the fallback project, which carries the configured id and key and
\* the name Donation Platform: nothing but a kill ends a cycle at the project
\* fetch, and a snapshot saved by such a cycle holds the fallback project.
C11_FallbackProjectPersisted ==
    /\ (pc \in AfterGetProject /\ ~fetchedProject.found) =>
          /\ project.id = JIRA_PROJECT_ID
          /\ project.key = JIRA_PROJECT_KEY
          /\ project.name = "Donation Platform"
    /\ (pc = "idle" /\ outcome.at = "get_project") => outcome.kind \in {"none", "crashed"}
    /\ (pc = "saved" /\ ~fetchedProject.found) =>
          /\ projectsFile.state = "complete"
          /\ projectsFile.doc.id = JIRA_PROJECT_ID
          /\ projectsFile.doc.key = JIRA_PROJECT_KEY
          /\ projectsFile.doc.name = "Donation Platform"
          /\ issuesFile.state = "complete"
          /\ issuesFile.doc.project_id = JIRA_PROJECT_ID
          /\ issuesFile.doc.project_key = JIRA_PROJECT_KEY
          /\ issuesFile.doc.issues = issues

\* Both project requests failed, issues were fetched and the snapshot with
\* the fallback project has been written.
C11_Witness ==
    /\ pc = "saved"
    /\ ~fetchedProject.found
    /\ Len(issues) > 0
    /\ committed.has
    /\ committed.project.name = "Donation Platform"
    /\ projectsFile = Complete(committed.project)

\* The stage of the cycle at a step of main.
Stage(at) ==
    CASE at = "idle" -> "IDLE"
      [] at = "get_project" -> "FETCHING_PROJECT"
      [] at \in {"fetch", "fetched"} -> "FETCHING_ISSUES"
      [] at \in SaveSteps \cup {"saved"} -> "PERSISTING"

\* The stage changes of the successful path.
StageOrder ==
    {<<"IDLE", "FETCHING_PROJECT">>, <<"FETCHING_PROJECT", "FETCHING_ISSUES">>,
     <<"FETCHING_ISSUES", "PERSISTING">>}

\* One step of the cycle keeps the stage, takes the next stage of the
\* successful path, returns to IDLE from PERSISTING after a save that
\* succeeded, or returns to IDLE from any stage as a failed cycle.
StageStep ==
    \/ Stage(pc') = Stage(pc)
    \/ <<Stage(pc), Stage(pc')>> \in StageOrder
    \/ /\ pc = "saved"
       /\ pc' = "idle"
       /\ outcome'.kind = "success"
    \/ /\ pc' = "idle"
       /\ outcome'.kind \in {"no_issues", "save_failed", "crashed"}

\* C12: a cycle goes IDLE -> FETCHING_PROJECT -> FETCHING_ISSUES -> PERSISTING
\* -> IDLE in this order, or from any stage back to IDLE as a failed cycle;
\* it is never persisting before a search request was made and issues were
\* obtained; and a started cycle whose calls all return is eventually back
\* in IDLE.
C12_CycleStages ==
    /\ [][StageStep]_vars
    /\ [](pc \in SaveSteps \cup {"saved"} => (requests # <<>> /\ issues # <<>>))
    /\ ((pc # "idle") ~> (pc = "idle"))

\* The second cycle of a run went through every stage and is back in IDLE.
C12_Witness ==
    /\ pc = "idle"
    /\ cycles = 2
    /\ outcome.kind = "success"
    /\ outcome.at = "saved"
    /\ issuesFile.state = "complete"
    /\ issuesFile.doc.last_updated = 2

\* A document without its timestamp.
SansTimestamp(doc) == [f \in DOMAIN doc \ {"last_updated"} |-> doc[f]]

\* A table without the timestamps of its rows.
RowsSansTimestamps(t) ==
    [k \in DOMAIN t |-> [f \in DOMAIN t[k] \ {"created_at", "updated_at"} |-> t[k][f]]]

\* The call of save_data that has just returned got the arguments of the call
\* before it, and both calls succeeded on both sinks.
SameWriteTwice ==
    /\ pc = "saved"
    /\ db.result = "committed"
    /\ db.prevOk
    /\ db.prevArgs = db.args

\* C13: a second write of the same (project, issues) leaves in each sink
\* the content the first one left, timestamps aside: the two documents of
\* the file sink, the rows of both tables of the relational sink.
C13_WritesIdempotent ==
    SameWriteTwice =>
        /\ projectsFile.state = "complete"
        /\ issuesFile.state = "complete"
        /\ SansTimestamp(projectsFile.doc) = SansTimestamp(atStart.p.doc)
        /\ SansTimestamp(issuesFile.doc) = SansTimestamp(atStart.i.doc)
        /\ load_issues(issuesFile).body.doc.issues = db.args.issues
        /\ RowsSansTimestamps(db.projects) = RowsSansTimestamps(db.atStart.projects)
        /\ RowsSansTimestamps(db.issues) = RowsSansTimestamps(db.atStart.issues)

\* Two issues were written twice in a row; the file's timestamp moved, the
\* content did not.
C13_Witness ==
    /\ SameWriteTwice
    /\ Len(db.args.issues) = 2
    /\ issuesFile.doc.last_updated # atStart.i.doc.last_updated
    /\ issuesFile.doc.issues = atStart.i.doc.issues
    /\ Cardinality(DOMAIN db.issues) = 2

RECURSIVE UpsertAll(_, _, _, _, _)
\* The rows after the issue statements of issues k..Len(issues) in order.
UpsertAll(t, iss, k, project_data, now) ==
    IF k > Len(iss) THEN t
    ELSE UpsertAll(UpsertIssue(t, IssueValues(iss[k], project_data), now),
                   iss, k + 1, project_data, now)

\* C15: Database.save_issues is one transaction. Until it commits, the
\* committed rows are those before the call; when a statement fails they
\* are rolled back to exactly those; when none fails, the project upsert and
\* every issue upsert of the batch are committed together.
C15_BatchIsOneTransaction ==
    /\ (pc \in {"db_project", "db_issue"}) =>
          /\ db.projects = db.atStart.projects
          /\ db.issues = db.atStart.issues
    /\ (db.result = "rolled_back") =>
          /\ db.projects = db.atStart.projects
          /\ db.issues = db.atStart.issues
          /\ db.txProjects = db.projects
          /\ db.txIssues = db.issues
    /\ (db.result = "committed") =>
          /\ db.projects =
                UpsertProject(db.atStart.projects, ProjectValues(db.args.project), Now)
          /\ db.issues =
                UpsertAll(db.atStart.issues, db.args.issues, 1, db.args.project, Now)

\* A batch over a table that had rows failed after its first issue statement
\* and the table is as it was.
C15_Witness ==
    /\ db.result = "rolled_back"
    /\ db.k >= 2
    /\ db.atStart.issues # NoTable
    /\ db.issues = db.atStart.issues
    /\ \E i \in DOMAIN db.args.issues :
          db.args.issues[i].id \notin DOMAIN db.issues

\* Every write so far succeeded on both sinks and both have reported their
\* statistics.
BothSinksWritten ==
    /\ pc = "idle"
    /\ outcome.kind = "success"
    /\ db.result = "committed"
    /\ ~db.failed
    /\ stats.has
    /\ db.stats.has

\* C16: after the same writes on both sinks, statistics() of the file sink
\* and of the relational sink return the same total, active, closed and
\* todo counts.
C16_SinksSameStatistics ==
    BothSinksWritten =>
        /\ stats.total_issues = db.stats.total_issues
        /\ stats.active_issues = db.stats.active_issues
        /\ stats.closed_issues = db.stats.closed_issues
        /\ stats.todo_issues = db.stats.todo_issues

\* The last object of the written list with the identifier id.
LastWith(iss, id) ==
    iss[CHOOSE i \in DOMAIN iss :
           /\ iss[i].id = id
           /\ \A j \in DOMAIN iss : iss[j].id = id => j <= i]

\* C17: after a successful write the sink holds exactly the issues of that
\* write: the file's list is the written list, in order; the table has a
\* row for each written identifier and for no other, and every column of a
\* row is that of the new object.
C17_SnapshotSupersededWholesale ==
    (pc = "saved" /\ db.result = "committed" /\ ~db.failed) =>
        /\ issuesFile.state = "complete"
        /\ issuesFile.doc.issues = db.args.issues
        /\ issuesFile.doc.total_issues = Len(db.args.issues)
        /\ DOMAIN db.issues = {db.args.issues[i].id : i \in DOMAIN db.args.issues}
        /\ \A id \in DOMAIN db.issues :
              LET new == IssueValues(LastWith(db.args.issues, id), db.args.project)
              IN [f \in DOMAIN new |-> db.issues[id][f]] = new

\* C14: once stop_refresh is set, wherever the scheduler stands, it has seen
\* the flag and left auto_refresh_jira before more than one second has
\* passed: while the thread is alive with the flag set, at most one second
\* has gone by since the flag was set.
C14_StopObservedWithinOneSecond ==
    (stop_refresh /\ schedPc # "exit") => stopSeconds <= 1

\* C18: the issue identifiers of a committed snapshot are pairwise distinct,
\* whatever the remote did while its pages were fetched.
C18_SnapshotIdsDistinct ==
    committed.has =>
        \A i, j \in DOMAIN committed.issues.issues :
            committed.issues.issues[i].id = committed.issues.issues[j].id => i = j

\* The name of a nested field of a raw record, or the default when the field
\* is missing.
NameOr(field, default) == IF field = NoField THEN default ELSE field[1].name

DisplayNameOr(field, default) ==
    IF field = NoField THEN default ELSE field[1].displayName

\* The record kept for raw is raw with its missing nested fields defaulted.
Defaulted(kept, raw) ==
    /\ kept.id = raw.id
    /\ kept.key = raw.key
    /\ kept.status = NameOr(raw.fields.status, <<>>)
    /\ kept.priority = NameOr(raw.fields.priority, "")
    /\ kept.issuetype = NameOr(raw.fields.issuetype, "")
    /\ kept.reporter = DisplayNameOr(raw.fields.reporter, "")
    /\ kept.created_by = DisplayNameOr(raw.fields.reporter, "")
    /\ kept.assignee = DisplayNameOr(raw.fields.assignee, "")
    /\ kept.assigned_to = DisplayNameOr(raw.fields.assignee, "Unassigned")

\* C19: a raw record (with id, key and fields, as the search returns it)
\* that lacks nested fields never makes the fetch fail. Every page can be
\* processed whatever its records lack, and when no request fails
\* get_all_issues returns one record for every remote issue, in order: a
\* missing status, priority, issuetype or reporter is the empty string, a
\* missing assignee is "Unassigned" under assigned_to (and the empty string
\* under assignee), a present field is its name.
C19_MissingFieldsDefaulted ==
    /\ (pc = "fetch") => ENABLED FetchPageOk
    /\ (pc = "fetched" /\ ~fetchFailed) =>
          /\ Len(issues) = Len(remote)
          /\ \A i \in DOMAIN issues : Defaulted(issues[i], remote[i])

\* The first record of the first page came without any nested field; the
\* fetch went on to the second page and returned all three issues.
C19_Witness ==
    /\ pc = "fetched"
    /\ ~fetchFailed
    /\ Len(requests) = 2
    /\ Len(issues) = 3
    /\ \A f \in NestedFields : remote[1].fields[f] = NoField
    /\ issues[1].status = <<>>
    /\ issues[1].assigned_to = "Unassigned"
    /\ issues[3] = ProcessedIssue(3)

\* C20: with the base URL, the email or the token missing or empty, the
\* sync stops at startup: no request goes out to the remote and no file is
\* written.
C20_MissingCredentialFailsFast ==
    (validate_jira_config(config) = "ValueError") =>
        /\ ~sent
        /\ pc \notin SaveSteps \cup {"saved"}
        /\ projectsFile = atStart.p
        /\ issuesFile = atStart.i

\* The last cycle ended without a successful persist and before save_issues
\* was entered: the storage could not be initialized, the fetch returned no
\* issues, or the process was interrupted before the write.
EndedBeforeWrite ==
    /\ pc = "idle"
    /\ \/ outcome.kind \in {"init_failed", "raised", "no_issues"}
       \/ /\ outcome.kind = "crashed"
          /\ outcome.at \in {"get_project", "fetch", "fetched"}

\* C21: a cycle that ends without a successful persist because the storage
\* could not be initialized, the fetch yielded no issues or an exception came
\* before the write leaves the project file and the issues file exactly as
\* the cycle found them, and no step of any cycle changes the backups.
C21_FailedCycleKeepsStorage ==
    /\ [](EndedBeforeWrite => (projectsFile = atStart.p /\ issuesFile = atStart.i))
    /\ [][(pc \notin SaveSteps /\ pc' \notin SaveSteps) =>
             (projectsFile' = projectsFile /\ issuesFile' = issuesFile
                /\ backups' = backups)]_vars

\* The second cycle fetched nothing over the snapshot the first one had
\* written, and the snapshot is still there.
C21_Witness ==
    /\ pc = "idle"
    /\ cycles = 2
    /\ outcome.kind = "no_issues"
    /\ committed.has
    /\ atStart.i = Complete(committed.issues)
    /\ issuesFile = Complete(committed.issues)
    /\ projectsFile = Complete(committed.project)
    /\ load_issues(issuesFile).body.doc.total_issues > 0

\* C22: a run_jira_fetch that ends in an error or a non-zero exit never
\* ends the scheduler (the thread leaves auto_refresh_jira only with the stop
\* flag set), and while the flag is not set and every sync returns, the
\* k-th refresh is followed by a further one, whatever its result.
C22_FailedRefreshIsRetried ==
    /\ [](schedPc = "exit" => stop_refresh)
    /\ \A k \in 0..(MaxRefresh - 1) :
          (schedPc # "off" /\ refreshes = k) ~> (refreshes > k \/ stop_refresh)
    /\ \A k \in 1..(MaxRefresh - 1) :
          (refreshes = k /\ fetchResult \in {"warning", "error"})
             ~> (refreshes > k \/ stop_refresh)

\* After a first refresh that failed, a full wait was served and the second
\* sync has been started.
C22_Witness ==
    /\ refreshes = 2
    /\ fetchResult \in {"warning", "error"}
    /\ schedPc = "in_fetch"
    /\ children = 1
    /\ ticks = RefreshSeconds
    /\ ~stop_refresh

\* C23: get_all_issues terminates. Whatever requests fail, a call makes at
\* most (number of remote issues \div page size) + 1 requests: a turn that
\* stays in the loop moves start_at on by a page and not beyond the remote's
\* issues, the loop is left after finitely many turns, and the first request
\* of every call is at offset 0.
C23_PaginationTerminates ==
    /\ [](pc \in {"fetch", "fetched"} =>
             Len(requests) <= (Len(remote) \div JIRA_MAX_RESULTS) + 1)
    /\ [](requests # <<>> => requests[1] = 0)
    /\ [][(pc = "fetch" /\ pc' = "fetch") =>
             (start_at' = start_at + JIRA_MAX_RESULTS /\ start_at' <= Len(remote))]_vars
    /\ ((pc = "fetch") ~> (pc # "fetch"))

\* The call of the second cycle started at offset 0 again, got a full page
\* and ended at its second request, which failed.
C23_Witness ==
    /\ pc = "fetched"
    /\ cycles = 2
    /\ requests = <<0, JIRA_MAX_RESULTS>>
    /\ fetchFailed
    /\ Len(issues) = JIRA_MAX_RESULTS

\* C24: get_project asks for the project by its identifier first and by
\* its key only if that request failed; it returns the response of the first
\* request that succeeded, and None exactly when both requests failed.
C24_ProjectByIdThenKey ==
    (pc \in {"fetch", "fetched"}) =>
        LET r == fetchedProject.requests IN
        /\ r # <<>>
        /\ r[1].by = "id"
        /\ Len(r) = (IF r[1].ok THEN 1 ELSE 2)
        /\ (Len(r) = 2) => (r[2].by = "key")
        /\ fetchedProject.found <=> r[Len(r)].ok
        /\ fetchedProject.found => (fetchedProject.project = RemoteProject)
        /\ (~fetchedProject.found) => (fetchedProject.project = NoProjectDoc)

\* The request by id failed, the one by key succeeded and its response was
\* returned to main.
C24_Witness ==
    /\ pc = "fetch"
    /\ fetchedProject.found
    /\ fetchedProject.requests = <<ProjectRequest("id", FALSE), ProjectRequest("key", TRUE)>>
    /\ project = RemoteProject

\* C25: the statistics a cycle reports after a successful persist are those
\* of the snapshot it has just written, read back from the issues file: the
\* reported total is the number of issues stored (which is the number
\* fetched), and the reported timestamp is that of the stored document.
C25_StatsFromWrittenSnapshot ==
    (pc = "idle" /\ outcome.kind = "success") =>
        /\ stats.has
        /\ issuesFile = Complete(committed.issues)
        /\ stats = get_stats(issuesFile)
        /\ stats.total_issues = Len(issuesFile.doc.issues)
        /\ stats.total_issues = issuesFile.doc.total_issues
        /\ stats.total_issues = outcome.fetched
        /\ stats.last_updated = issuesFile.doc.last_updated

\* The second cycle replaced a snapshot of three issues by one of a single
\* issue and reported a total of one.
C25_Witness ==
    /\ pc = "idle"
    /\ outcome.kind = "success"
    /\ cycles = 2
    /\ atStart.i.state = "complete"
    /\ atStart.i.doc.total_issues = 3
    /\ stats.total_issues = 1
    /\ stats.last_updated = 2

\* The loaders of FileSystemStorage among the readers.
StorageLoads == {"load_issues", "load_project"}

\* C26: load_issues and load_project change neither the canonical files nor
\* the backups, and each returns None exactly when its canonical file does
\* not exist.
C26_ReadsPureNoneIffAbsent ==
    /\ [][(lastRead'.op \in StorageLoads) =>
             (projectsFile' = projectsFile /\ issuesFile' = issuesFile
                /\ backups' = backups)]_vars
    /\ [](lastRead.op = "load_issues" =>
             (lastRead.code = "None" <=> issuesFile.state = "absent"))
    /\ [](lastRead.op = "load_project" =>
             (lastRead.code = "None" <=> projectsFile.state = "absent"))

\* The date strings in ISO-8601 form: a date, a date and a time, and these
\* with the zone Z or the offset +00:00.
IsoForms ==
    {<<"date">>, <<"date", "T", "time">>,
     <<"date", "T", "time", "Z">>, <<"date", "T", "time", "+00:00">>}

\* C27: _parse_date always returns, None or a timestamp: None for an absent
\* value, an empty string, a value that is no string and a string that is
\* no date; a timestamp for a date string, timezone-aware (UTC) when the
\* string ends in Z.
C27_ParseDateNeverRaises ==
    (parsed # NotParsed) =>
        /\ parsed.kind \in {"None", "datetime"}
        /\ (date_str.type # "str" \/ date_str.s \notin IsoForms) => parsed = PyNone
        /\ (date_str.type = "str" /\ date_str.s \in IsoForms) => parsed.kind = "datetime"
        /\ (date_str.type = "str" /\ date_str.s = <<"date", "T", "time", "Z">>) =>
              parsed = Datetime("UTC")

\* A value such as 2024-01-15T10:30:00Z was parsed into an aware timestamp.
C27_Witness ==
    /\ date_str = [type |-> "str", s |-> <<"date", "T", "time", "Z">>]
    /\ parsed.kind = "datetime"
    /\ parsed.tzinfo = "UTC"

\* C28: the StorageManager's sink is the relational one exactly when
\* Config.USE_DATABASE is set and the file sink otherwise, and every call of
\* initialize, save_data, get_statistics and cleanup of the run ran that
\* sink's method (cleanup has nothing to run on the file sink).
C28_OneSinkPerFlag ==
    (mgr.storage # "none") =>
        /\ (mgr.storage = "Database") <=> config.USE_DATABASE
        /\ (mgr.storage = "FileSystemStorage") <=> ~config.USE_DATABASE
        /\ \A i \in DOMAIN mgr.served :
              \/ mgr.served[i].by = (IF config.USE_DATABASE THEN "Database"
                                                            ELSE "FileSystemStorage")
              \/ /\ mgr.served[i].op = "cleanup"
                 /\ mgr.served[i].by = "none"
                 /\ ~config.USE_DATABASE

\* A run with --database, whatever the environment says: all four calls
\* went to the relational sink.
C28_Witness ==
    /\ run.argv = "--database"
    /\ run.USE_DATABASE = "false"
    /\ mgr.pc = "off"
    /\ mgr.storage = "Database"
    /\ mgr.served = <<Served("initialize", "Database"), Served("save_data", "Database"),
                      Served("get_statistics", "Database"), Served("cleanup", "Database")>>

\* C29: after sync_project(alias) for a known alias has written a snapshot,
\* the project id and key of both files are those of the selected project and
\* every stored issue was fetched with that project's key; an unknown alias
\* starts no sync and leaves the storage as it was.
C29_SwitchedSnapshotIsSelected ==
    /\ []((switcher.returned = "True" /\ outcome.kind = "success") =>
            /\ projectsFile.doc.id = PROJECTS[switcher.alias].id
            /\ projectsFile.doc.key = PROJECTS[switcher.alias].key
            /\ issuesFile.doc.project_id = PROJECTS[switcher.alias].id
            /\ issuesFile.doc.project_key = PROJECTS[switcher.alias].key
            /\ \A k \in DOMAIN issuesFile.doc.issues :
                  issuesFile.doc.issues[k].key[1] = PROJECTS[switcher.alias].key)
    /\ [][(switcher' # switcher /\ switcher'.alias \notin DOMAIN PROJECTS) =>
            /\ switcher'.returned = "False"
            /\ pc' = "idle"
            /\ projectsFile' = projectsFile
            /\ issuesFile' = issuesFile
            /\ backups' = backups]_vars

\* C30: whatever logins, logouts and GETs came before, a GET of /dashboard,
\* /api/issues, /api/project, /api/status or a file by a session that has not
\* completed a successful login since its last logout is answered with a
\* redirect to the login page and delivers nothing; and a session counts as
\* logged in only through a known user with the matching password hash.
C30_ProtectedOnlyWhenLoggedIn ==
    /\ (web.request.method = "GET" /\ web.request.path \in ProtectedPaths /\ ~web.loggedIn) =>
          /\ web.response = Redirect("/login")
          /\ lastRead = NoRead
    /\ is_authenticated(web.session) => web.loggedIn

\* After a login and a logout the session asks for the issues and is sent to
\* the login page.
C30_Witness ==
    /\ web.loggedOut
    /\ ~web.loggedIn
    /\ web.request = [method |-> "GET", path |-> "/api/issues"]
    /\ web.response = Redirect("/login")
    /\ issuesFile.state = "complete"

\* set(x.lower() for x in names)
LowerSet(names) == {Lower(n) : n \in names}

StoredIssues == issuesFile.doc.issues

BucketOf(st) ==
    CASE st = S_Open -> "active"
      [] st \in {S_Done, S_done} -> "closed"
      [] st = S_ToDo -> "todo"
      [] OTHER -> "none"

InBucket(b) == Cardinality({i \in DOMAIN StoredIssues : BucketOf(StoredIssues[i].status) = b})

====
